---- MODULE Spec2Model ----
(***************************************************************************)
(* Model of the alert deduplication store of src/src/alert_dedup.py:       *)
(* the signature codec, the dedup-state document with its TTL pruning,     *)
(* and the write-to-temp-then-rename persistence, both as whole            *)
(* operations (Spec), as pure functions (SpecSig) and as interleaved       *)
(* steps of several processes on one state file (SpecConc); and of the     *)
(* pipeline metrics of cookiecutter-ai-starter/.../src/metrics.py: the     *)
(* scanners of the logs directory (SpecScan), the continuity alert on long *)
(* histories (SpecCont), the loading of the metric thresholds (SpecThr),   *)
(* their evaluation on a summary (SpecEval) and the health score           *)
(* (SpecHealth); and of the report of src/src/ops_report.py: the retry     *)
(* guides (SpecGuides) and the report built for a caller's now             *)
(* (SpecReport).                                                           *)
(***************************************************************************)
EXTENDS Integers, Sequences, FiniteSets, TLC

(***************************************************************************)
(* Bounds of the model.                                                    *)
(***************************************************************************)
MaxTime == 3
MaxCooldown == 3
MaxTtl == 2
MaxGap == 2
DocChunks == 2
MaxCalls == 1

(***************************************************************************)
(* Time is counted in whole seconds from an arbitrary origin.  NoTime is   *)
(* Python's None for a timestamp; Untracked marks a signature whose last   *)
(* emission is not known to the observer; None is Python's None for an     *)
(* integer argument and InvalidText an environment text that is no integer.*)
(***************************************************************************)
NoTime == -1
Untracked == NoTime - 1
None == -1000
InvalidText == -1001
Times == 0..MaxTime

(***************************************************************************)
(* ---- Alert signature codec ----                                         *)
(* A line is a sequence of one-character strings.                          *)
(***************************************************************************)
IsSpace(c) == c \in {" ", "\t"}

Lower(c) == CASE c = "A" -> "a" [] c = "B" -> "b" [] c = "T" -> "t" [] OTHER -> c

RECURSIVE LStrip(_)
LStrip(s) == IF s # <<>> /\ IsSpace(Head(s)) THEN LStrip(Tail(s)) ELSE s

RECURSIVE RStrip(_)
RStrip(s) == IF s # <<>> /\ IsSpace(s[Len(s)]) THEN RStrip(SubSeq(s, 1, Len(s) - 1)) ELSE s

Strip(s) == RStrip(LStrip(s))

\* index of the first "]" of s at or after position i, 0 when there is none
RECURSIVE FirstClose(_, _)
FirstClose(s, i) == IF i > Len(s) THEN 0 ELSE IF s[i] = "]" THEN i ELSE FirstClose(s, i + 1)

\* _TIMESTAMP_PREFIX_PATTERN.sub("", s): ^\[[^\]]+\]\s*
StripTimestampPrefix(s) ==
  IF s # <<>> /\ Head(s) = "["
  THEN LET j == FirstClose(s, 2)
       IN IF j >= 3 THEN LStrip(SubSeq(s, j + 1, Len(s))) ELSE s
  ELSE s

\* _WHITESPACE_PATTERN.sub(" ", s): every run of whitespace becomes one space
RECURSIVE CollapseWhitespace(_)
CollapseWhitespace(s) ==
  IF s = <<>> THEN <<>>
  ELSE IF IsSpace(Head(s)) THEN <<" ">> \o CollapseWhitespace(LStrip(s))
  ELSE <<Head(s)>> \o CollapseWhitespace(Tail(s))

\* a codec that forgets to fold the case
NoLowerAll(s) == s

\* str.lower()
LowerAll(s) == [i \in 1..Len(s) |-> Lower(s[i])]

_normalize_alert_message(line) ==
  LowerAll(Strip(CollapseWhitespace(StripTimestampPrefix(Strip(line)))))

\* hashlib.sha256(...).hexdigest(): an injective tag of the hashed text
Sha256(text) == <<"sha256", text>>

build_alert_signature(line) == Sha256(_normalize_alert_message(line))

(***************************************************************************)
(* ---- Timestamps as stored text ----                                     *)
(* form "Z": UTC time t with a Z suffix; "naive": time t without offset;   *)
(* "offset": local time t with an explicit UTC offset off; "bad": text     *)
(* that is no ISO-8601 time; "blank": empty or whitespace-only text;       *)
(* "nonstr": a JSON value that is not a string; "none": Python's None.     *)
(***************************************************************************)
TsZ(t) == [form |-> "Z", t |-> t, off |-> 0]
TsNaive(t) == [form |-> "naive", t |-> t, off |-> 0]
TsOffset(t, off) == [form |-> "offset", t |-> t, off |-> off]
TsBad == [form |-> "bad", t |-> 0, off |-> 0]
TsBlank == [form |-> "blank", t |-> 0, off |-> 0]
TsNonStr == [form |-> "nonstr", t |-> 0, off |-> 0]
TsNone == [form |-> "none", t |-> 0, off |-> 0]

_parse_timestamp(value) ==
  CASE value.form \in {"none", "blank", "bad", "nonstr"} -> NoTime
    [] value.form \in {"Z", "naive"} -> value.t
    [] value.form = "offset" -> value.t - value.off

_format_timestamp(t) == TsZ(t)

Max(a, b) == IF a >= b THEN a ELSE b

(***************************************************************************)
(* ---- Files ----                                                         *)
(* The content of a path: no file, bytes that are not UTF-8, text that is  *)
(* not JSON, JSON that is no object, an object whose last_sent is no       *)
(* mapping, or a {"last_sent": map} document of which `chunks` of its      *)
(* DocChunks pieces have reached the file.                                 *)
(***************************************************************************)
EmptyMap == <<>>

Content(kind, map, chunks) == [kind |-> kind, map |-> map, chunks |-> chunks]
Missing == Content("missing", EmptyMap, 0)
BadUtf8 == Content("badutf8", EmptyMap, DocChunks)
BadJson == Content("badjson", EmptyMap, DocChunks)
NotDict == Content("notdict", EmptyMap, DocChunks)
NoMapping == Content("nomap", EmptyMap, DocChunks)
Document(map) == Content("json", map, DocChunks)

IsWhole(content) == content.kind # "json" \/ content.chunks = DocChunks

DEFAULT_ALERT_DEDUP_TTL_SEC == 604800

\* get_alert_dedup_ttl_sec: envText is the integer the variable spells, or InvalidText
get_alert_dedup_ttl_sec(envText) ==
  IF envText = InvalidText THEN Max(0, DEFAULT_ALERT_DEDUP_TTL_SEC) ELSE Max(0, envText)

\* effective_ttl of prune_alert_dedup_state and should_emit_and_update_state
EffectiveTtl(ttl_sec, envText) ==
  IF ttl_sec = None THEN get_alert_dedup_ttl_sec(envText) ELSE Max(0, ttl_sec)

\* read_text raises UnicodeDecodeError, which load_alert_dedup_state does not catch
LoadRaises(content) == content.kind = "badutf8"

load_alert_dedup_state(content) ==
  IF content.kind = "json" /\ content.chunks = DocChunks
  THEN [k \in {x \in DOMAIN content.map : content.map[x].form # "nonstr"} |-> content.map[k]]
  ELSE EmptyMap

\* a pruning that drops the entries it cannot date
RetainedStrict(state, ttl_sec, now) ==
  IF ttl_sec <= 0 THEN DOMAIN state
  ELSE {k \in DOMAIN state : _parse_timestamp(state[k]) # NoTime /\ _parse_timestamp(state[k]) >= now - ttl_sec}

\* a pruning that drops the entry exactly at the cutoff
RetainedExclusive(state, ttl_sec, now) ==
  IF ttl_sec <= 0 THEN DOMAIN state
  ELSE {k \in DOMAIN state : _parse_timestamp(state[k]) = NoTime \/ _parse_timestamp(state[k]) > now - ttl_sec}

\* a pruning that takes a TTL of 0 for a real one: everything before now expires
RetainedZeroExpires(state, ttl_sec, now) ==
  IF ttl_sec < 0 THEN DOMAIN state
  ELSE {k \in DOMAIN state : _parse_timestamp(state[k]) = NoTime \/ _parse_timestamp(state[k]) >= now - ttl_sec}

\* the signatures _prune_state_entries retains
Retained(state, ttl_sec, now) ==
  IF ttl_sec <= 0 THEN DOMAIN state
  ELSE {k \in DOMAIN state : _parse_timestamp(state[k]) = NoTime \/ _parse_timestamp(state[k]) >= now - ttl_sec}

\* _prune_state_entries: <<retained mapping, removed_count>>
_prune_state_entries(state, ttl_sec, now) ==
  LET keep == Retained(state, ttl_sec, now)
  IN <<[k \in keep |-> state[k]], Cardinality(DOMAIN state) - Cardinality(keep)>>

\* a cooldown test that lets the emission at exactly the cooldown wait
ShouldEmitStrict(last_sent_timestamp, cooldown_sec, now) ==
  IF cooldown_sec <= 0 THEN TRUE
  ELSE IF _parse_timestamp(last_sent_timestamp) = NoTime THEN TRUE
  ELSE now - _parse_timestamp(last_sent_timestamp) > cooldown_sec

should_emit_signature(last_sent_timestamp, cooldown_sec, now) ==
  IF cooldown_sec <= 0 THEN TRUE
  ELSE IF _parse_timestamp(last_sent_timestamp) = NoTime THEN TRUE
  ELSE now - _parse_timestamp(last_sent_timestamp) >= cooldown_sec

Get(state, key) == IF key \in DOMAIN state THEN state[key] ELSE TsNone

\* dict.setdefault in place of an assignment: an existing stamp is kept
PutIfAbsent(state, key, value) == [k \in DOMAIN state \cup {key} |-> IF k \in DOMAIN state THEN state[k] ELSE value]

\* state[key] = value
Put(state, key, value) == [k \in DOMAIN state \cup {key} |-> IF k = key THEN value ELSE state[k]]

(***************************************************************************)
(* ---- State ----                                                         *)
(* fs      the files of the state directory: the state path and, per       *)
(*         process, the temporary file mkstemp gave it                     *)
(* clock   the wall clock (datetime.now)                                   *)
(* env     the text of ALERT_DEDUP_TTL_SEC                                 *)
(* last    the last completed operation: its arguments, what it returned   *)
(*         and the state document it found                                 *)
(* pc, loc the position and the locals of each process (SpecConc)          *)
(* renamed the document of the most recent rename over the state path      *)
(* seen    what the most recent reader of the state path got               *)
(* sigIn, sigOut  two alert lines and their signatures (SpecSig)           *)
(***************************************************************************)
VARIABLES fs, clock, env, last, pc, loc, renamed, seen, sigIn, sigOut

(***************************************************************************)
(* State of the pipeline metrics (metrics.py):                             *)
(* logs    the *-metrics-*.json documents of the logs directory, in the    *)
(*         order of their file names                                       *)
(* scan    the most recent call of a scanner of the logs directory         *)
(*         (summarize_pipeline_metrics, evaluate_consecutive_slo_alert)    *)
(*         and what it returned                                            *)
(* thr     the environment of the threshold settings and what              *)
(*         load_metric_thresholds resolved from it                         *)
(* ev      the most recent call of evaluate_metric_thresholds              *)
(* health  the most recent call of calculate_operational_health_score     *)
(* report  the run logs, the caller's now and the most recent report built *)
(*         from them (ops_report.py)                                       *)
(***************************************************************************)
VARIABLES logs, scan, thr, ev, health, report

dedupVars == <<fs, clock, env, last, pc, loc, renamed, seen, sigIn, sigOut>>
metricVars == <<logs, scan, thr, ev, health, report>>
vars == <<dedupVars, metricVars>>

NoScan == [op |-> "none", days |-> 0, raised |-> FALSE, out |-> <<>>]
NoThr == [op |-> "none", env |-> <<>>, out |-> <<>>, prevEnv |-> <<>>, prevOut |-> <<>>]
NoEv == [op |-> "none", summary |-> <<>>, thresholds |-> <<>>, raised |-> FALSE, violations |-> <<>>]
NoHealth == [op |-> "none"]
NoReport == [op |-> "none"]

\* the metrics are not in use
MetricsIdle ==
  /\ logs = <<>>
  /\ scan = NoScan
  /\ thr = NoThr
  /\ ev = NoEv
  /\ health = NoHealth
  /\ report = NoReport

Procs == {"p1", "p2"}
StatePath == "state"
TmpPath(p) == p
Paths == {StatePath} \cup {TmpPath(p) : p \in Procs}

\* the alert lines of the callers
LineA1 == <<"[", "1", "]", " ", "A", " ", "b">>
LineA2 == <<" ", "[", "2", "T", "1", "]", "a", "\t", " ", "B", " ">>
LineB == <<"[", "1", "]", " ", "b">>
Lines == {LineA2, LineB}

KeyA == build_alert_signature(LineA1)
KeyB == build_alert_signature(LineB)
KeyOld == <<"raw", <<"o", "l", "d">>>>
\* build_alert_signature tabulated over the callers' lines
SignatureOf == [l \in Lines |-> build_alert_signature(l)]
LineKeys == {SignatureOf[l] : l \in Lines}

CooldownArgs == {-1, 1, MaxCooldown}
TtlArgs == {None, 1, MaxTtl}
EnvTexts == {InvalidText, -1, 1}

InitValsA == {TsNone, TsZ(0), TsBad}
InitValsB == {TsNone, TsOffset(2, 1), TsBlank}
InitValsOld == {TsNone, TsNaive(0), TsNonStr}

MapOf(a, b, o) ==
  LET v == [k \in {KeyA, KeyB, KeyOld} |-> IF k = KeyA THEN a ELSE IF k = KeyB THEN b ELSE o]
  IN [k \in {x \in {KeyA, KeyB, KeyOld} : v[x] # TsNone} |-> v[k]]

InitDocs ==
  {Missing, BadUtf8, BadJson, NotDict, NoMapping}
    \cup {Document(MapOf(a, b, o)) : a \in InitValsA, b \in InitValsB, o \in InitValsOld}

NoOp ==
  [op |-> "none", key |-> <<>>, now |-> 0, ttl |-> 0, cooldown |-> 0,
   raised |-> FALSE, send |-> FALSE, removed |-> 0, before |-> 0, after |-> 0,
   existed |-> FALSE, backup |-> FALSE, bak |-> Missing, pre |-> Missing,
   lastSent |-> TsNone, sentAt |-> TsNone, chain |-> Untracked, writes |-> 0]

IdleLoc ==
  [key |-> <<>>, now |-> 0, ttl |-> 0, cooldown |-> 0, state |-> EmptyMap,
   removed |-> 0, payload |-> EmptyMap, next |-> "idle", send |-> FALSE,
   failed |-> FALSE, calls |-> 0, returned |-> FALSE]

InitStore ==
  /\ fs \in {[q \in Paths |-> IF q = StatePath THEN d ELSE Missing] : d \in InitDocs}
  /\ clock = 0
  /\ env \in EnvTexts
  /\ last = NoOp
  /\ pc = [p \in Procs |-> "idle"]
  /\ loc = [p \in Procs |-> IdleLoc]
  /\ renamed = Missing
  /\ seen = Missing
  /\ sigIn = <<>>
  /\ sigOut = <<>>
  /\ MetricsIdle

Init == InitStore

(***************************************************************************)
(* ---- Whole operations on the state document (one caller at a time) ---- *)
(***************************************************************************)
\* save_alert_dedup_state run to its end: the state path holds the whole document
Saved(map) == Document(map)

\* a load that saves the mapping whether or not the prune removed an entry
LoadStateAlwaysSaving(content, ttl_sec, now) ==
  LET state == load_alert_dedup_state(content)
      pr == _prune_state_entries(state, ttl_sec, now)
  IN [state |-> pr[1], removed |-> pr[2], before |-> Cardinality(DOMAIN state),
      file |-> Saved(pr[1]), writes |-> 1]

\* _load_state_with_prune on a loadable file: the pruned mapping, removed_count,
\* len(state) and what the state path holds afterwards
_load_state_with_prune(content, ttl_sec, now) ==
  LET state == load_alert_dedup_state(content)
      pr == _prune_state_entries(state, ttl_sec, now)
  IN [state |-> pr[1], removed |-> pr[2], before |-> Cardinality(DOMAIN state),
      file |-> IF pr[2] > 0 THEN Saved(pr[1]) ELSE content,
      writes |-> IF pr[2] > 0 THEN 1 ELSE 0]

Raise(op, now) ==
  /\ last' = [NoOp EXCEPT !.op = op, !.now = now, !.raised = TRUE, !.pre = fs[StatePath]]
  /\ UNCHANGED fs

\* What the caller knows of the signature before a should_emit call: NoTime when
\* the store has no entry for it, the time of its last permitted emission when the
\* previous operation was a should_emit call for it with the same cooldown and
\* TTL, and Untracked otherwise.
ChainBefore(signature, cooldown, ttl) ==
  IF signature \notin DOMAIN load_alert_dedup_state(fs[StatePath]) THEN NoTime
  ELSE IF /\ last.op = "should_emit" /\ ~last.raised /\ last.key = signature
          /\ last.cooldown = cooldown /\ last.ttl = ttl
       THEN (IF last.send THEN last.now ELSE last.chain)
       ELSE Untracked

\* should_emit_and_update_state(state_path, line, cooldown_sec, ttl_sec, now)
ShouldEmit(line, cooldown_sec, ttl_sec, now) ==
  LET content == fs[StatePath]
      effective_ttl == EffectiveTtl(ttl_sec, env)
      cooldown == Max(0, cooldown_sec)
      signature == SignatureOf[line]
      lp == _load_state_with_prune(content, effective_ttl, now)
      last_sent == Get(lp.state, signature)
      send == should_emit_signature(last_sent, cooldown, now)
      sent_at == _format_timestamp(now)
  IN /\ IF LoadRaises(content) THEN Raise("should_emit", now)
        ELSE /\ fs' = [fs EXCEPT ![StatePath] =
                         IF send THEN Saved(Put(lp.state, signature, sent_at)) ELSE lp.file]
             /\ last' = [NoOp EXCEPT !.op = "should_emit", !.key = signature, !.now = now,
                           !.ttl = effective_ttl, !.cooldown = cooldown, !.send = send,
                           !.removed = lp.removed, !.before = lp.before, !.pre = content,
                           !.lastSent = last_sent,
                           !.sentAt = IF send THEN sent_at ELSE TsNone,
                           !.chain = ChainBefore(signature, cooldown, effective_ttl),
                           !.writes = lp.writes + (IF send THEN 1 ELSE 0)]
     /\ UNCHANGED <<clock, env, pc, loc, renamed, seen, sigIn, sigOut, metricVars>>

\* prune_alert_dedup_state(path, ttl_sec, now)
Prune(ttl_sec, now) ==
  LET content == fs[StatePath]
      effective_ttl == EffectiveTtl(ttl_sec, env)
      lp == _load_state_with_prune(content, effective_ttl, now)
  IN /\ IF LoadRaises(content) THEN Raise("prune", now)
        ELSE /\ fs' = [fs EXCEPT ![StatePath] = lp.file]
             /\ last' = [NoOp EXCEPT !.op = "prune", !.now = now, !.ttl = effective_ttl,
                           !.removed = lp.removed, !.before = lp.before,
                           !.after = lp.before - lp.removed, !.pre = content,
                           !.writes = lp.writes]
     /\ UNCHANGED <<clock, env, pc, loc, renamed, seen, sigIn, sigOut, metricVars>>

\* summarize_alert_dedup_state(path): the clock and the environment's TTL
Summarize ==
  LET content == fs[StatePath]
      ttl_sec == get_alert_dedup_ttl_sec(env)
      lp == _load_state_with_prune(content, ttl_sec, clock)
  IN /\ IF LoadRaises(content) THEN Raise("summarize", clock)
        ELSE /\ fs' = [fs EXCEPT ![StatePath] = lp.file]
             /\ last' = [NoOp EXCEPT !.op = "summarize", !.now = clock, !.ttl = ttl_sec,
                           !.removed = lp.removed, !.before = lp.before,
                           !.after = Cardinality(DOMAIN lp.state), !.pre = content,
                           !.existed = (lp.file.kind # "missing"),
                           !.writes = lp.writes]
     /\ UNCHANGED <<clock, env, pc, loc, renamed, seen, sigIn, sigOut, metricVars>>

\* reset_alert_dedup_state(path, backup): prune, copy to the backup file, save {}
Reset(backup) ==
  LET content == fs[StatePath]
      ttl_sec == get_alert_dedup_ttl_sec(env)
      lp == _load_state_with_prune(content, ttl_sec, clock)
      existed == lp.file.kind # "missing"
  IN /\ IF LoadRaises(content) THEN Raise("reset", clock)
        ELSE /\ fs' = [fs EXCEPT ![StatePath] = Saved(EmptyMap)]
             /\ last' = [NoOp EXCEPT !.op = "reset", !.now = clock, !.ttl = ttl_sec,
                           !.removed = lp.removed, !.before = Cardinality(DOMAIN lp.state),
                           !.after = 0, !.pre = content, !.existed = existed,
                           !.backup = backup,
                           !.bak = IF existed /\ backup THEN lp.file ELSE Missing,
                           !.writes = lp.writes + 1]
     /\ UNCHANGED <<clock, env, pc, loc, renamed, seen, sigIn, sigOut, metricVars>>

Tick ==
  /\ clock < MaxTime
  /\ clock' = clock + 1
  /\ UNCHANGED <<fs, env, last, pc, loc, renamed, seen, sigIn, sigOut, metricVars>>

\* the callers pass the wall clock as `now`
EmitCall == \E line \in Lines, c \in CooldownArgs, t \in TtlArgs : ShouldEmit(line, c, t, clock)
PruneCall == \E t \in TtlArgs : Prune(t, clock)
SummarizeCall == Summarize
ResetCall == \E backup \in BOOLEAN : Reset(backup)

Next == EmitCall \/ PruneCall \/ SummarizeCall \/ ResetCall \/ Tick

Spec == Init /\ [][Next]_vars

(***************************************************************************)
(* ---- Properties of the whole operations (Spec) ----                     *)
(***************************************************************************)
StateDoc == fs[StatePath]
Emitted == last.op = "should_emit" /\ ~last.raised
PreMap == load_alert_dedup_state(last.pre)
PostMap == load_alert_dedup_state(StateDoc)

\* C1 as claimed: for a signature whose chain of should_emit calls started on a
\* store without an entry for it, under every TTL: the first call sends, a call
\* less than the cooldown after the last permitted emission does not, and a call
\* at the cooldown or later does.
C1_CooldownEveryTtl ==
  Emitted /\ last.cooldown > 0 =>
    /\ last.chain = NoTime => last.send
    /\ last.chain >= 0 /\ last.now >= last.chain /\ last.now - last.chain < last.cooldown => ~last.send
    /\ last.chain >= 0 /\ last.now - last.chain >= last.cooldown => last.send

\* C1 amended: the same, where the suppression inside the cooldown is promised
\* only when the TTL is disabled (0) or at least the cooldown.
C1_CooldownMonotonicity ==
  Emitted /\ last.cooldown > 0 =>
    /\ last.chain = NoTime => last.send
    /\ /\ last.chain >= 0 /\ last.now >= last.chain /\ last.now - last.chain < last.cooldown
       /\ (last.ttl = 0 \/ last.ttl >= last.cooldown)
       => ~last.send
    /\ last.chain >= 0 /\ last.now - last.chain >= last.cooldown => last.send

C1_Witness ==
  /\ Emitted /\ last.cooldown > 0 /\ last.chain >= 0
  /\ last.now > last.chain /\ last.now - last.chain < last.cooldown
  /\ last.ttl >= last.cooldown
  /\ ~last.send

\* C2: after prune or summarize with ttl > 0 returns, no entry of the state
\* document has a parsable timestamp older than now - ttl, and every entry that
\* was at or after now - ttl is still there with the value it had.
C2_TtlPruning ==
  last.op \in {"prune", "summarize"} /\ ~last.raised /\ last.ttl > 0 =>
    /\ \A k \in DOMAIN PostMap :
         _parse_timestamp(PostMap[k]) # NoTime => _parse_timestamp(PostMap[k]) >= last.now - last.ttl
    /\ \A k \in DOMAIN PreMap :
         _parse_timestamp(PreMap[k]) # NoTime /\ _parse_timestamp(PreMap[k]) >= last.now - last.ttl
           => k \in DOMAIN PostMap /\ PostMap[k] = PreMap[k]

C2_Witness ==
  /\ last.op = "prune" /\ ~last.raised /\ last.ttl > 0 /\ last.removed > 0
  /\ \E k \in DOMAIN PreMap : _parse_timestamp(PreMap[k]) = last.now - last.ttl /\ k \in DOMAIN PostMap

\* C3: when should_emit returns send=true the state document maps the signature
\* to now and the result carries that stamp as sent_at; when it returns send=false
\* the document maps the signature to the timestamp it had before the call.
C3_PersistDecision ==
  Emitted =>
    IF last.send
    THEN /\ last.key \in DOMAIN PostMap
         /\ _parse_timestamp(PostMap[last.key]) = last.now
         /\ last.sentAt = PostMap[last.key]
    ELSE /\ last.key \in DOMAIN PreMap
         /\ Get(PostMap, last.key) = PreMap[last.key]
         /\ last.sentAt = TsNone

C3_Witness ==
  /\ Emitted /\ ~last.send /\ last.removed > 0
  /\ last.key \in DOMAIN PostMap

\* C6 as claimed: after reset, whatever the document was before (missing,
\* unparsable, fresh or expired entries), reset has completed, the state document
\* holds the empty mapping, a summarize that follows counts 0 entries and a
\* second reset reports 0 entries before and after.
C6_ResetClearsEveryState ==
  last.op = "reset" =>
    /\ ~last.raised
    /\ StateDoc = Document(EmptyMap)
    /\ Cardinality(DOMAIN _load_state_with_prune(StateDoc, get_alert_dedup_ttl_sec(env), clock).state) = 0
    /\ _load_state_with_prune(StateDoc, get_alert_dedup_ttl_sec(env), clock).before = 0
    /\ last.after = 0

\* C7 as claimed: after reset with backup=true on an existing state document,
\* the backup file loads to the mapping the document held before the call.
C7_BackupRoundTrip ==
  last.op = "reset" /\ ~last.raised /\ last.backup /\ last.pre.kind # "missing" =>
    load_alert_dedup_state(last.bak) = PreMap

\* C9 as claimed: on a missing or unparsable state document, or one whose
\* last_sent is no mapping, every operation completes, and should_emit sends.
C9_UnparsableIsEmpty ==
  last.op # "none" /\ last.pre.kind \in {"missing", "badutf8", "badjson", "notdict", "nomap"} =>
    /\ ~last.raised
    /\ last.op = "should_emit" => last.send

\* C10: prune, summarize and should_emit for another signature keep every
\* entry whose timestamp cannot be parsed, with its value.
C10_UnparsableRetained ==
  last.op \in {"prune", "summarize", "should_emit"} /\ ~last.raised =>
    \A k \in DOMAIN PreMap :
      _parse_timestamp(PreMap[k]) = NoTime /\ k # last.key
        => k \in DOMAIN PostMap /\ PostMap[k] = PreMap[k]

C10_Witness ==
  /\ last.op \in {"prune", "should_emit"} /\ ~last.raised /\ last.removed > 0
  /\ \E k \in DOMAIN PreMap : _parse_timestamp(PreMap[k]) = NoTime /\ k # last.key /\ k \in DOMAIN PostMap

\* C11: zero means disabled.  A should_emit call whose cooldown is 0 (given as 0
\* or as a negative number) sends whatever timestamp the store holds for the
\* signature; a should_emit or prune call whose effective TTL is 0 reports 0
\* removed entries and its prune step leaves the mapping as it was (the only
\* entry that may differ afterwards is the one should_emit stamps on sending).
C11_ZeroMeansDisabled ==
  /\ Emitted /\ last.cooldown = 0 => last.send
  /\ last.op \in {"should_emit", "prune"} /\ ~last.raised /\ last.ttl = 0 =>
       /\ last.removed = 0
       /\ \A k \in DOMAIN PreMap :
            \/ last.op = "should_emit" /\ last.send /\ k = last.key
            \/ k \in DOMAIN PostMap /\ PostMap[k] = PreMap[k]
       /\ DOMAIN PostMap \subseteq
            DOMAIN PreMap \cup (IF last.op = "should_emit" /\ last.send THEN {last.key} ELSE {})

\* a send under cooldown 0 and TTL 0 right at the stored timestamp of the
\* signature, while the store holds an older entry that stays
C11_Witness ==
  /\ Emitted /\ last.cooldown = 0 /\ last.ttl = 0 /\ last.send
  /\ _parse_timestamp(last.lastSent) # NoTime /\ last.now - _parse_timestamp(last.lastSent) <= 0
  /\ \E k \in DOMAIN PreMap :
       /\ k # last.key /\ _parse_timestamp(PreMap[k]) # NoTime
       /\ _parse_timestamp(PreMap[k]) < last.now /\ k \in DOMAIN PostMap

(***************************************************************************)
(* ---- The signature codec on its own (SpecSig) ----                      *)
(* Two alert lines are drawn as renderings of a message (a list of words)  *)
(* under a bracketed timestamp, an amount of whitespace and a letter case. *)
(***************************************************************************)
Messages ==
  { << <<"a">> >>, << <<"a">>, <<"b">> >>, << <<"a", "b">> >>, << <<"[", "a", "]">>, <<"b">> >> }
Stamps == { <<"1">>, <<"2", "T", "1">>, <<"1", " ", "2">> }

Upper(c) == CASE c = "a" -> "A" [] c = "b" -> "B" [] OTHER -> c

\* n whitespace characters, spaces and tabs in turn
RECURSIVE Blanks(_)
Blanks(n) == IF n <= 0 THEN <<>> ELSE Blanks(n - 1) \o <<IF n % 2 = 1 THEN " " ELSE "\t">>

Cased(word, upper) == [i \in 1..Len(word) |-> IF upper THEN Upper(word[i]) ELSE word[i]]

RECURSIVE JoinWords(_, _, _)
JoinWords(words, gap, upper) ==
  IF words = <<>> THEN <<>>
  ELSE IF Len(words) = 1 THEN Cased(words[1], upper)
  ELSE Cased(words[1], upper) \o Blanks(gap) \o JoinWords(Tail(words), gap, upper)

\* the text of the line "[<ts>] <message>"
Render(r) ==
  Blanks(r.pad) \o <<"[">> \o r.ts \o <<"]">> \o Blanks(r.pad)
    \o JoinWords(r.msg, r.gap, r.upper) \o Blanks(r.pad)

LineSpecs ==
  [msg : Messages, ts : Stamps, pad : 0..1, gap : 1..MaxGap, upper : BOOLEAN]

InitSig ==
  /\ sigIn \in LineSpecs \X LineSpecs
  /\ sigOut = <<>>
  /\ fs = [q \in Paths |-> Missing]
  /\ clock = 0
  /\ env = InvalidText
  /\ last = NoOp
  /\ pc = [p \in Procs |-> "idle"]
  /\ loc = [p \in Procs |-> IdleLoc]
  /\ renamed = Missing
  /\ seen = Missing
  /\ MetricsIdle

Sign ==
  /\ sigIn # <<>>
  /\ sigOut = <<>>
  /\ sigOut' = <<build_alert_signature(Render(sigIn[1])), build_alert_signature(Render(sigIn[2]))>>
  /\ UNCHANGED <<fs, clock, env, last, pc, loc, renamed, seen, sigIn, metricVars>>

NextSig == Sign

SpecSig == InitSig /\ [][NextSig]_vars

\* C8: two lines of the same message that differ in the bracketed timestamp,
\* the amount of whitespace or the letter case have the same signature, and
\* lines of different messages have different signatures.
C8_SignatureStability ==
  sigOut # <<>> =>
    /\ sigIn[1].msg = sigIn[2].msg => sigOut[1] = sigOut[2]
    /\ sigIn[1].msg # sigIn[2].msg => sigOut[1] # sigOut[2]

C8_Witness ==
  /\ sigOut # <<>>
  /\ sigIn[1].msg = sigIn[2].msg /\ Len(sigIn[1].msg) = 2
  /\ sigIn[1].ts # sigIn[2].ts /\ sigIn[1].pad # sigIn[2].pad
  /\ sigIn[1].gap # sigIn[2].gap /\ sigIn[1].upper # sigIn[2].upper
  /\ sigOut[1] = sigOut[2]

(***************************************************************************)
(* ---- Several processes on one state file (SpecConc) ----                *)
(* Each process runs should_emit_and_update_state step by step: load and   *)
(* prune, save the pruned mapping when something was removed, decide, save *)
(* the stamped mapping when it sends.  save_alert_dedup_state is mkstemp,  *)
(* the writes to the temporary file, the rename over the state path and    *)
(* the finally clause.  A reader may load the state path between any two   *)
(* steps.                                                                  *)
(***************************************************************************)
ConcDocs ==
  {Missing, BadJson, Document(MapOf(TsZ(0), TsNone, TsNone)), Document(MapOf(TsNone, TsZ(0), TsNaive(0)))}
ConcCooldowns == {MaxCooldown}
ConcTtls == {None, 1}

InitConc ==
  /\ fs \in {[q \in Paths |-> IF q = StatePath THEN d ELSE Missing] : d \in ConcDocs}
  /\ clock \in {0, MaxTime}
  /\ env = InvalidText
  /\ last = NoOp
  /\ pc = [p \in Procs |-> "idle"]
  /\ loc = [p \in Procs |-> IdleLoc]
  /\ renamed = Missing
  /\ seen = fs[StatePath]
  /\ sigIn = <<>>
  /\ sigOut = <<>>
  /\ MetricsIdle

\* a save that writes the document straight into the state path
SaveTargetInPlace(p) == StatePath

\* the path the document is written to: tempfile.mkstemp(dir=state_path.parent)
SaveTarget(p) == TmpPath(p)

\* a rename that folds the new document into the one it replaces
ReplacedMerging(old, new) ==
  IF old.kind = "json" /\ new.kind = "json"
  THEN Content("json", [k \in DOMAIN old.map \cup DOMAIN new.map |->
                          IF k \in DOMAIN new.map THEN new.map[k] ELSE old.map[k]], new.chunks)
  ELSE new

\* temp_file.replace(state_path): what the state path holds after the rename
Replaced(old, new) == new

\* should_emit_and_update_state is entered: the arguments are normalised
Begin(p, line, cooldown_sec, ttl_sec) ==
  /\ pc[p] = "idle"
  /\ loc[p].calls < MaxCalls
  /\ loc' = [loc EXCEPT ![p] = [IdleLoc EXCEPT !.key = SignatureOf[line], !.now = clock,
                                  !.ttl = EffectiveTtl(ttl_sec, env),
                                  !.cooldown = Max(0, cooldown_sec),
                                  !.calls = loc[p].calls + 1]]
  /\ pc' = [pc EXCEPT ![p] = "load"]
  /\ UNCHANGED <<fs, clock, env, last, renamed, seen, sigIn, sigOut, metricVars>>

\* _load_state_with_prune up to its save
LoadStep(p) ==
  /\ pc[p] = "load"
  /\ LET content == fs[StatePath]
         pr == _prune_state_entries(load_alert_dedup_state(content), loc[p].ttl, loc[p].now)
     IN IF LoadRaises(content)
        THEN /\ pc' = [pc EXCEPT ![p] = "idle"]
             /\ loc' = [loc EXCEPT ![p].failed = TRUE]
        ELSE /\ loc' = [loc EXCEPT ![p].state = pr[1], ![p].removed = pr[2],
                                   ![p].payload = pr[1], ![p].next = "decide"]
             /\ pc' = [pc EXCEPT ![p] = IF pr[2] > 0 THEN "mkstemp" ELSE "decide"]
  /\ UNCHANGED <<fs, clock, env, last, renamed, seen, sigIn, sigOut, metricVars>>

\* should_emit_signature and, when it sends, the stamp of the in-memory mapping
Decide(p) ==
  /\ pc[p] = "decide"
  /\ LET send == should_emit_signature(Get(loc[p].state, loc[p].key), loc[p].cooldown, loc[p].now)
     IN IF send
        THEN /\ loc' = [loc EXCEPT ![p].send = TRUE,
                                   ![p].payload = Put(loc[p].state, loc[p].key, _format_timestamp(loc[p].now)),
                                   ![p].next = "return"]
             /\ pc' = [pc EXCEPT ![p] = "mkstemp"]
        ELSE /\ loc' = [loc EXCEPT ![p].send = FALSE, ![p].returned = TRUE]
             /\ pc' = [pc EXCEPT ![p] = "idle"]
  /\ UNCHANGED <<fs, clock, env, last, renamed, seen, sigIn, sigOut, metricVars>>

\* tempfile.mkstemp: a new, empty file of a name no other process has
Mkstemp(p) ==
  /\ pc[p] = "mkstemp"
  /\ fs' = [fs EXCEPT ![TmpPath(p)] = Content("json", loc[p].payload, 0)]
  /\ pc' = [pc EXCEPT ![p] = "write"]
  /\ UNCHANGED <<clock, env, last, loc, renamed, seen, sigIn, sigOut, metricVars>>

\* json.dump, flush and fsync: the next piece of the document reaches the file
WriteStep(p) ==
  /\ pc[p] = "write"
  /\ LET target == SaveTarget(p)
         sofar == IF fs[target].kind = "json" /\ fs[target].map = loc[p].payload /\ fs[target].chunks < DocChunks
                  THEN fs[target].chunks ELSE 0
     IN /\ fs' = [fs EXCEPT ![target] = Content("json", loc[p].payload, sofar + 1)]
        /\ pc' = [pc EXCEPT ![p] = IF sofar + 1 = DocChunks THEN "replace" ELSE "write"]
  /\ UNCHANGED <<clock, env, last, loc, renamed, seen, sigIn, sigOut, metricVars>>

\* the write raises OSError (the disk is full): control goes to the finally clause
WriteFail(p) ==
  /\ pc[p] = "write"
  /\ loc' = [loc EXCEPT ![p].failed = TRUE]
  /\ pc' = [pc EXCEPT ![p] = "finally"]
  /\ UNCHANGED <<fs, clock, env, last, renamed, seen, sigIn, sigOut, metricVars>>

\* temp_file.replace(state_path)
Replace(p) ==
  /\ pc[p] = "replace"
  /\ fs' = [fs EXCEPT ![StatePath] = Replaced(fs[StatePath], fs[TmpPath(p)]),
                      ![TmpPath(p)] = Missing]
  /\ renamed' = Document(loc[p].payload)
  /\ pc' = [pc EXCEPT ![p] = "finally"]
  /\ UNCHANGED <<clock, env, last, loc, seen, sigIn, sigOut, metricVars>>

\* finally: the temporary file is unlinked if it is still there; a failed save
\* ends the operation, a finished one returns to its caller
Finally(p) ==
  /\ pc[p] = "finally"
  /\ fs' = [fs EXCEPT ![TmpPath(p)] = Missing]
  /\ pc' = [pc EXCEPT ![p] = IF loc[p].failed \/ loc[p].next = "return" THEN "idle" ELSE loc[p].next]
  /\ loc' = [loc EXCEPT ![p].returned = ~loc[p].failed /\ loc[p].next = "return"]
  /\ UNCHANGED <<clock, env, last, renamed, seen, sigIn, sigOut, metricVars>>

\* a reader (load_alert_dedup_state of the dashboard) opens the state path
Read ==
  /\ seen' = fs[StatePath]
  /\ UNCHANGED <<fs, clock, env, last, pc, loc, renamed, sigIn, sigOut, metricVars>>

BeginCall == \E p \in Procs, line \in Lines, c \in ConcCooldowns, t \in ConcTtls : Begin(p, line, c, t)
LoadCall == \E p \in Procs : LoadStep(p)
DecideCall == \E p \in Procs : Decide(p)
MkstempCall == \E p \in Procs : Mkstemp(p)
WriteCall == \E p \in Procs : WriteStep(p)
WriteFailCall == \E p \in Procs : WriteFail(p)
ReplaceCall == \E p \in Procs : Replace(p)
FinallyCall == \E p \in Procs : Finally(p)

NextConc ==
  \/ BeginCall \/ LoadCall \/ DecideCall \/ MkstempCall \/ WriteCall
  \/ WriteFailCall \/ ReplaceCall \/ FinallyCall \/ Read

SpecConc == InitConc /\ [][NextConc]_vars

InSave(p) == pc[p] \in {"mkstemp", "write", "replace", "finally"}

\* C4: whatever the writers are doing, the state path holds a whole document
\* and a reader gets a whole document, never a part of one.
C4_AtomicPersistence == IsWhole(StateDoc) /\ IsWhole(seen)

C4_Witness ==
  /\ \E p \in Procs : pc[p] = "write" /\ fs[TmpPath(p)].kind = "json" /\ fs[TmpPath(p)].chunks \in 1..(DocChunks - 1)
  /\ renamed # Missing /\ seen = renamed /\ seen # Document(EmptyMap)

\* C5: once a rename has happened the state path holds exactly the document of
\* the process that renamed last, and a process that is not inside a save has
\* left no temporary file.
C5_LastRenameWins ==
  /\ renamed # Missing => StateDoc = renamed
  /\ \A p \in Procs : ~InSave(p) => fs[TmpPath(p)] = Missing

C5_Witness ==
  /\ \A p \in Procs : pc[p] = "idle" /\ loc[p].returned /\ loc[p].send
  /\ loc["p1"].key # loc["p2"].key
  /\ renamed # Missing /\ StateDoc = renamed
  /\ \E p \in Procs : loc[p].key \notin DOMAIN StateDoc.map

(***************************************************************************)
(* ======================================================================= *)
(* Pipeline metrics: cookiecutter-ai-starter/.../src/metrics.py            *)
(* ======================================================================= *)
(* ---- Run telemetry documents ----                                       *)
(* A document of the logs directory is bytes that are not UTF-8, text that *)
(* is not JSON, JSON that is no object, or an object with the fields       *)
(* pipeline (a text), finished_at and started_at (stored timestamps, with  *)
(* the further forms "empty" for the empty string, "falsy" for a value     *)
(* that is no text and counts as false (0, false, [], {}), "digits" for an *)
(* integer whose eight digits spell the date that begins at t, "basic" for *)
(* the text of such digits, and "nonstr" for every other value that is no  *)
(* text), success, duration_sec, command_failures and alert_count (an      *)
(* integer, or InvalidText for a value that is no number).  mtime is the   *)
(* time the file was last written.                                         *)
(***************************************************************************)
MaxFiles == 3

SecondsPerDay == 86400
DatetimeMin == -1
BlankText == InvalidText - 1

\* the float nan, the float inf, and an integer beyond the range of a float
NaN == BlankText - 1
Infinity == NaN - 1
HugeInt == Infinity - 1

TsEmpty == [form |-> "empty", t |-> 0, off |-> 0]
TsFalsy == [form |-> "falsy", t |-> 0, off |-> 0]
TsDigits(t) == [form |-> "digits", t |-> t, off |-> 0]
TsBasic(t) == [form |-> "basic", t |-> t, off |-> 0]

daily == <<"d", "a", "i", "l", "y">>
weekly == <<"w", "e", "e", "k", "l", "y">>
monthly == <<"m", "o", "n", "t", "h", "l", "y">>
hourly == <<"h", "o", "u", "r", "l", "y">>
WeeklyPadded == <<" ", "W", "e", "e", "k", "l", "y", " ">>

_ALLOWED_PIPELINES == {daily, weekly, monthly}

\* sorted(...) of pipeline names
PipelineOrder == <<daily, monthly, weekly>>

RunDocument(pipeline, finished_at, started_at, success, duration_sec, command_failures, alert_count) ==
  [kind |-> "object", pipeline |-> pipeline, finished_at |-> finished_at, started_at |-> started_at,
   success |-> success, duration_sec |-> duration_sec, command_failures |-> command_failures,
   alert_count |-> alert_count, mtime |-> 0]

Unreadable(kind) ==
  [kind |-> kind, pipeline |-> <<>>, finished_at |-> TsNone, started_at |-> TsNone,
   success |-> FALSE, duration_sec |-> 0, command_failures |-> 0, alert_count |-> 0, mtime |-> 0]

\* the file of a document, last written at mtime
Touched(doc, mtime) == [doc EXCEPT !.mtime = mtime]

\* str.lower() on the letters of the pipeline names
PipelineLower(c) == CASE c = "D" -> "d" [] c = "W" -> "w" [] c = "M" -> "m" [] c = "H" -> "h" [] OTHER -> c

\* str(payload.get("pipeline", "")).strip().lower()
NormalizePipeline(text) == [i \in 1..Len(Strip(text)) |-> PipelineLower(Strip(text)[i])]

\* a value that counts as true
Truthy(value) == value.form \notin {"none", "empty", "falsy"}

\* str(value): the digits of an integer are a text, and the text of every
\* other value that is no text spells no time
Str(value) ==
  CASE value.form = "digits" -> TsBasic(value.t)
    [] value.form \in {"nonstr", "falsy"} -> TsBad
    [] value.form = "none" -> TsBad
    [] OTHER -> value

\* str(payload.get("finished_at") or payload.get("started_at") or "")
EventText(doc) ==
  IF Truthy(doc.finished_at) THEN Str(doc.finished_at)
  ELSE IF Truthy(doc.started_at) THEN Str(doc.started_at)
  ELSE TsEmpty

\* metrics._parse_timestamp: an explicit offset is dropped, not converted;
\* datetime.fromisoformat reads the eight digits of a date as its midnight
metrics_parse_timestamp(value) ==
  CASE value.form \in {"none", "empty", "blank", "bad", "nonstr", "falsy"} -> NoTime
    [] value.form \in {"Z", "naive", "offset", "basic"} -> value.t

EventTime(doc) == metrics_parse_timestamp(EventText(doc))

\* float(value), 0.0 on a TypeError or ValueError; float() of an integer
\* beyond the range of a float is an OverflowError that is not caught
_to_float(value) == IF value \in {None, InvalidText} THEN 0 ELSE value
ToFloatRaises(n) == n = HugeInt

\* int(value), 0 on a TypeError or ValueError; int(nan) is a ValueError, and
\* int(inf) an OverflowError that is not caught
_to_int(value) == IF value \in {None, InvalidText, NaN} THEN 0 ELSE value
ToIntRaises(value) == value = Infinity

\* observed > threshold on floats: false when one of them is NaN, and inf is
\* greater than every number
Exceeds(observed, threshold) ==
  /\ observed # NaN /\ threshold # NaN
  /\ IF threshold = Infinity THEN FALSE
     ELSE IF observed = Infinity THEN TRUE
     ELSE observed > threshold

\* a + b on floats: nan when one of them is nan, and inf when one of them is inf
FloatAdd(a, b) ==
  IF a = NaN \/ b = NaN THEN NaN
  ELSE IF a = Infinity \/ b = Infinity THEN Infinity
  ELSE a + b

\* a + b on the integers of Python, one of which may be beyond the floats
IntAdd(a, b) == IF a = HugeInt \/ b = HugeInt THEN HugeInt ELSE a + b

\* a call that an exception has ended
Raised == [raised |-> TRUE]

\* the element of a set of one element
TheOnly(S) == CHOOSE x \in S : TRUE

\* n < 0 and n <= 0 on the integers of Python, of which HugeInt is a positive one
IsNegative(n) == n # HugeInt /\ n < 0
NotPositive(n) == n # HugeInt /\ n <= 0

\* window_start = None if days <= 0 else now - timedelta(days=days)
WindowStart(days, now) == IF days <= 0 THEN None ELSE now - days * SecondsPerDay

\* a window test that also drops the run exactly at window_start
BeforeWindowInclusive(timestamp, window_start) == window_start # None /\ timestamp <= window_start

\* window_start is not None and timestamp < window_start
BeforeWindow(timestamp, window_start) == window_start # None /\ timestamp < window_start

\* read_text raises UnicodeDecodeError, which the scanners do not catch
ScanRaises(files) == \E i \in 1..Len(files) : files[i].kind = "badutf8"

\* the chain of `continue` statements of both scanners
Skipped(doc, window_start) ==
  \/ doc.kind # "object"
  \/ NormalizePipeline(doc.pipeline) \notin _ALLOWED_PIPELINES
  \/ EventTime(doc) = NoTime
  \/ BeforeWindow(EventTime(doc), window_start)

(***************************************************************************)
(* ---- summarize_pipeline_metrics ----                                    *)
(* A quotient is kept as the pair <<numerator, denominator>>.              *)
(***************************************************************************)
Ratio(n, d) == IF d = 0 THEN <<0, 1>> ELSE <<n, d>>

NewStats ==
  [runs |-> 0, success_count |-> 0, duration_total |-> 0, max_duration_sec |-> 0,
   latest_run |-> [timestamp |-> TsEmpty, success |-> FALSE], latest_dt |-> DatetimeMin]

\* the counters before the loop; `raised` tells that an exception has left it
NewTotals ==
  [per_pipeline |-> <<>>, included_runs |-> 0, total_command_failures |-> 0,
   total_alert_count |-> 0, included |-> <<>>, raised |-> FALSE]

\* a latest-run test that keeps the first of several runs at the same time
IsLatestStrict(timestamp, latest_dt) == timestamp > latest_dt

\* timestamp >= stats["latest_dt"]
IsLatest(timestamp, latest_dt) == timestamp >= latest_dt

\* the body of the scan loop for a document that is not skipped; `included`
\* lists the positions of the documents that reached it.  _to_float of a
\* duration beyond the floats and _to_int of an infinite count are an
\* OverflowError, which ends the call.
Accumulate(acc, doc, i) ==
  IF \/ ToFloatRaises(doc.duration_sec)
     \/ ToIntRaises(doc.command_failures)
     \/ ToIntRaises(doc.alert_count)
  THEN [acc EXCEPT !.raised = TRUE]
  ELSE
  LET pipeline == NormalizePipeline(doc.pipeline)
      stats == IF pipeline \in DOMAIN acc.per_pipeline THEN acc.per_pipeline[pipeline] ELSE NewStats
      timestamp == EventTime(doc)
      duration_sec == _to_float(doc.duration_sec)
      newer == IsLatest(timestamp, stats.latest_dt)
      updated ==
        [runs |-> stats.runs + 1,
         success_count |-> stats.success_count + (IF doc.success THEN 1 ELSE 0),
         duration_total |-> FloatAdd(stats.duration_total, duration_sec),
         max_duration_sec |-> IF Exceeds(duration_sec, stats.max_duration_sec) THEN duration_sec
                              ELSE stats.max_duration_sec,
         latest_run |-> IF newer THEN [timestamp |-> EventText(doc), success |-> doc.success] ELSE stats.latest_run,
         latest_dt |-> IF newer THEN timestamp ELSE stats.latest_dt]
  IN [per_pipeline |-> Put(acc.per_pipeline, pipeline, updated),
      included_runs |-> acc.included_runs + 1,
      total_command_failures |-> IntAdd(acc.total_command_failures, _to_int(doc.command_failures)),
      total_alert_count |-> IntAdd(acc.total_alert_count, _to_int(doc.alert_count)),
      included |-> Append(acc.included, i),
      raised |-> FALSE]

\* for file_path in sorted(log_path.glob("*-metrics-*.json")), from position i
\* on: the counters at the end of the loop, or the counters with `raised` when
\* a file that is no UTF-8 or a conversion has ended it
RECURSIVE ScanSummary(_, _, _, _)
ScanSummary(files, i, window_start, acc) ==
  IF i > Len(files) \/ acc.raised THEN acc
  ELSE IF files[i].kind = "badutf8" THEN [acc EXCEPT !.raised = TRUE]
  ELSE IF Skipped(files[i], window_start) THEN ScanSummary(files, i + 1, window_start, acc)
  ELSE ScanSummary(files, i + 1, window_start, Accumulate(acc, files[i], i))

\* the summary of the counters; the quotient of an inf or nan total is the total
SummaryOf(days, window_start, acc) ==
  [raised |-> FALSE,
   days |-> days,
   window_start |-> window_start,
   total_runs |-> acc.included_runs,
   order |-> SelectSeq(PipelineOrder, LAMBDA p : p \in DOMAIN acc.per_pipeline),
   pipelines |->
     [p \in DOMAIN acc.per_pipeline |->
        [runs |-> acc.per_pipeline[p].runs,
         success_rate |-> Ratio(acc.per_pipeline[p].success_count, acc.per_pipeline[p].runs),
         avg_duration_sec |->
           IF acc.per_pipeline[p].duration_total \in {NaN, Infinity}
           THEN <<acc.per_pipeline[p].duration_total, 1>>
           ELSE Ratio(acc.per_pipeline[p].duration_total, acc.per_pipeline[p].runs),
         max_duration_sec |-> acc.per_pipeline[p].max_duration_sec,
         latest_run |-> acc.per_pipeline[p].latest_run]],
   totals |-> [command_failures |-> acc.total_command_failures,
               alert_count |-> acc.total_alert_count],
   included |-> acc.included]

\* the call: its summary, or Raised when an exception has ended the loop
summarize_pipeline_metrics(days, files, now) ==
  TheOnly({IF acc.raised THEN Raised ELSE SummaryOf(days, WindowStart(days, now), acc) :
             acc \in {ScanSummary(files, 1, WindowStart(days, now), NewTotals)}})

(***************************************************************************)
(* ---- evaluate_consecutive_slo_alert ----                                *)
(* The text of a limit in the environment is the integer it spells, None   *)
(* when the variable is not set, BlankText or InvalidText.                 *)
(***************************************************************************)
_SLO_CONSECUTIVE_ALERT_DEFAULT == 3
_SLO_CONSECUTIVE_ALERT_CRITICAL_DEFAULT == 5

_read_positive_int_env(raw, default, minimum) ==
  IF raw \in {None, BlankText, InvalidText} THEN default ELSE Max(minimum, raw)

\* per_pipeline_runs: for each pipeline the (timestamp, success, timestamp_text)
\* of its runs, in scan order
RECURSIVE CollectRuns(_, _, _, _)
CollectRuns(files, i, window_start, runs) ==
  IF i > Len(files) THEN runs
  ELSE IF Skipped(files[i], window_start) THEN CollectRuns(files, i + 1, window_start, runs)
  ELSE LET pipeline == NormalizePipeline(files[i].pipeline)
           sofar == IF pipeline \in DOMAIN runs THEN runs[pipeline] ELSE <<>>
           run == [timestamp |-> EventTime(files[i]), success |-> files[i].success,
                   timestamp_text |-> EventText(files[i])]
       IN CollectRuns(files, i + 1, window_start, Put(runs, pipeline, Append(sofar, run)))

\* sorted(runs, key=lambda item: item[0], reverse=True): a stable sort, runs of
\* the same timestamp stay in scan order
RECURSIVE InsertRun(_, _)
InsertRun(sorted, run) ==
  IF sorted = <<>> THEN <<run>>
  ELSE IF Head(sorted).timestamp >= run.timestamp THEN <<Head(sorted)>> \o InsertRun(Tail(sorted), run)
  ELSE <<run>> \o sorted

RECURSIVE SortNewestFirst(_)
SortNewestFirst(runs) ==
  IF runs = <<>> THEN <<>>
  ELSE InsertRun(SortNewestFirst(SubSeq(runs, 1, Len(runs) - 1)), runs[Len(runs)])

\* a count of all the failing runs, which does not stop at a success
RECURSIVE CountFailuresAll(_)
CountFailuresAll(runs) ==
  IF runs = <<>> THEN 0
  ELSE (IF Head(runs).success THEN 0 ELSE 1) + CountFailuresAll(Tail(runs))

\* the loop over the sorted runs: break at the first success
RECURSIVE CountHeadFailures(_)
CountHeadFailures(runs) ==
  IF runs = <<>> THEN 0
  ELSE IF Head(runs).success THEN 0
  ELSE 1 + CountHeadFailures(Tail(runs))

SeverityRank(severity) == CASE severity = "none" -> 0 [] severity = "warning" -> 1 [] severity = "critical" -> 2

PipelineSeverity(consecutive_failures, critical_limit) ==
  IF consecutive_failures >= critical_limit THEN "critical" ELSE "warning"

evaluate_consecutive_slo_alert(days, files, limit_text, critical_text, now) ==
  LET consecutive_limit == _read_positive_int_env(limit_text, _SLO_CONSECUTIVE_ALERT_DEFAULT, 1)
      critical_limit ==
        _read_positive_int_env(critical_text, _SLO_CONSECUTIVE_ALERT_CRITICAL_DEFAULT, consecutive_limit)
      window_start == WindowStart(days, now)
      per_pipeline_runs == CollectRuns(files, 1, window_start, <<>>)
      sorted == [p \in DOMAIN per_pipeline_runs |-> SortNewestFirst(per_pipeline_runs[p])]
      streak == [p \in DOMAIN per_pipeline_runs |-> CountHeadFailures(sorted[p])]
      reported == SelectSeq(PipelineOrder,
                            LAMBDA p : p \in DOMAIN per_pipeline_runs /\ streak[p] >= consecutive_limit)
      violated_pipelines ==
        [k \in 1..Len(reported) |->
           [pipeline |-> reported[k],
            consecutive_failures |-> streak[reported[k]],
            latest_run |-> sorted[reported[k]][1].timestamp_text,
            severity |-> PipelineSeverity(streak[reported[k]], critical_limit)]]
      overall_severity ==
        IF \E k \in 1..Len(reported) : violated_pipelines[k].severity = "critical" THEN "critical"
        ELSE IF Len(reported) > 0 THEN "warning"
        ELSE "none"
  IN [limit |-> consecutive_limit,
      warning_limit |-> consecutive_limit,
      critical_limit |-> critical_limit,
      severity |-> overall_severity,
      active |-> overall_severity # "none",
      violated_pipelines |-> violated_pipelines]

(***************************************************************************)
(* ---- The scanners on a logs directory (SpecScan) ----                   *)
(* The clock stands at ScanNow; the documents carry event times around the *)
(* start of a one-day window and around now.                               *)
(***************************************************************************)
ScanNow == 2 * SecondsPerDay
AtStart == ScanNow - SecondsPerDay
Before == AtStart - 1
After == ScanNow + 1

(***************************************************************************)
(* ---- retention.run_retention ----                                       *)
(* The metrics files of the logs directory that were last written before   *)
(* the cutoff move to archive/metrics.  collected_data.json, the activity  *)
(* history and alerts.log, which the call prunes as well, are files of     *)
(* their own and are left out.  The text of RETENTION_DAYS is the integer  *)
(* it spells, None when the variable is not set, BlankText or InvalidText. *)
(***************************************************************************)
RetentionDefault == 90

\* max(0, int(text)), the default when the text is no integer
_retention_days(text) == IF text \in {None, BlankText, InvalidText} THEN RetentionDefault ELSE Max(0, text)

\* the metrics files that stay: modified_at < cutoff is false
KeptMetrics(files, cutoff) == SelectSeq(files, LAMBDA doc : ~(doc.mtime < cutoff))

run_retention(files, text, now) ==
  LET days == _retention_days(text)
      cutoff == now - days * SecondsPerDay
      kept == KeptMetrics(files, cutoff)
  IN [retention_days |-> days,
      cutoff |-> cutoff,
      metrics |-> [moved |-> Len(files) - Len(kept), kept |-> Len(kept)]]

ScanDays == {0, 1}
RetentionTexts == {None, InvalidText, 0, 1, -3}
LimitTexts == {<<None, None>>, <<1, InvalidText>>, <<2, 1>>}

LogDocuments ==
  { Touched(RunDocument(daily, TsNaive(Before), TsNone, FALSE, 5, 1, 1), Before),
    Touched(RunDocument(daily, TsNaive(AtStart), TsNone, TRUE, 2, 0, 0), AtStart),
    Touched(RunDocument(daily, TsNaive(AtStart), TsNone, FALSE, 3, 2, 1), ScanNow),
    Touched(RunDocument(daily, TsZ(ScanNow), TsNaive(Before), TRUE, 1, 0, 0), ScanNow),
    Touched(RunDocument(daily, TsZ(ScanNow), TsNone, FALSE, -1, 1, 0), Before),
    Touched(RunDocument(daily, TsNaive(After), TsNone, FALSE, 4, 1, 2), ScanNow),
    Touched(RunDocument(WeeklyPadded, TsFalsy, TsNaive(ScanNow), FALSE, InvalidText, InvalidText, 3), ScanNow),
    Touched(RunDocument(weekly, TsOffset(AtStart, 1), TsNone, TRUE, 2, 0, 0), AtStart),
    Touched(RunDocument(weekly, TsDigits(AtStart), TsNaive(Before), FALSE, 2, 0, 1), Before),
    Touched(RunDocument(hourly, TsNaive(ScanNow), TsNone, FALSE, 2, 1, 1), ScanNow),
    Touched(RunDocument(daily, TsBad, TsNaive(ScanNow), FALSE, 2, 1, 1), ScanNow),
    Touched(RunDocument(daily, TsEmpty, TsFalsy, TRUE, 1, 0, 0), AtStart),
    Touched(RunDocument(weekly, TsNaive(ScanNow), TsNone, TRUE, Infinity, HugeInt, 0), ScanNow),
    Touched(RunDocument(daily, TsNaive(AtStart), TsNone, FALSE, HugeInt, 1, 1), AtStart),
    Touched(RunDocument(monthly, TsNaive(Before), TsNone, FALSE, 5, 1, Infinity), Before),
    Touched(Unreadable("badutf8"), Before),
    Touched(Unreadable("badjson"), ScanNow),
    Touched(Unreadable("notdict"), AtStart) }

InitScan ==
  /\ logs \in UNION {[1..n -> LogDocuments] : n \in 0..MaxFiles}
  /\ scan = NoScan
  /\ thr = NoThr
  /\ ev = NoEv
  /\ health = NoHealth
  /\ report = NoReport
  /\ clock = ScanNow
  /\ fs = [q \in Paths |-> Missing]
  /\ env = InvalidText
  /\ last = NoOp
  /\ pc = [p \in Procs |-> "idle"]
  /\ loc = [p \in Procs |-> IdleLoc]
  /\ renamed = Missing
  /\ seen = Missing
  /\ sigIn = <<>>
  /\ sigOut = <<>>

\* summarize_pipeline_metrics(days, logs_dir) at the wall clock
SummarizeMetrics(days) ==
  /\ scan' \in {[op |-> "summarize", days |-> days, raised |-> summary.raised,
                  out |-> IF summary.raised THEN <<>> ELSE summary] :
                 summary \in {summarize_pipeline_metrics(days, logs, clock)}}
  /\ UNCHANGED <<dedupVars, logs, thr, ev, health, report>>

\* evaluate_consecutive_slo_alert(days, logs_dir, env) at the wall clock
EvaluateContinuity(days, limit_text, critical_text) ==
  /\ scan' = [op |-> "continuity", days |-> days, raised |-> ScanRaises(logs),
              out |-> IF ScanRaises(logs) THEN <<>>
                      ELSE evaluate_consecutive_slo_alert(days, logs, limit_text, critical_text, clock)]
  /\ UNCHANGED <<dedupVars, logs, thr, ev, health, report>>

\* run_retention(base_dir) at the wall clock, RETENTION_DAYS being `text`
RunRetention(text) ==
  /\ scan' = [op |-> "retention", days |-> _retention_days(text), raised |-> FALSE,
              out |-> run_retention(logs, text, clock)]
  /\ logs' = KeptMetrics(logs, clock - _retention_days(text) * SecondsPerDay)
  /\ UNCHANGED <<dedupVars, thr, ev, health, report>>

SummarizeMetricsCall == \E days \in ScanDays : SummarizeMetrics(days)
EvaluateContinuityCall == \E days \in ScanDays, l \in LimitTexts : EvaluateContinuity(days, l[1], l[2])
RunRetentionCall == \E text \in RetentionTexts : RunRetention(text)

NextScan == SummarizeMetricsCall \/ EvaluateContinuityCall \/ RunRetentionCall

SpecScan == InitScan /\ [][NextScan]_vars

(***************************************************************************)
(* ---- Properties of the scanners (SpecScan) ----                         *)
(***************************************************************************)
Summarized == scan.op = "summarize" /\ ~scan.raised
Continued == scan.op = "continuity" /\ ~scan.raised

\* the positions of the run records of a known pipeline that carry an event time
Eligible ==
  {i \in 1..Len(logs) :
     /\ logs[i].kind = "object"
     /\ NormalizePipeline(logs[i].pipeline) \in _ALLOWED_PIPELINES
     /\ EventTime(logs[i]) # NoTime}

\* the positions of the documents the last summary took in
Included == {scan.out.included[k] : k \in 1..Len(scan.out.included)}
IncludedOf(p) == {i \in Included : NormalizePipeline(logs[i].pipeline) = p}

SetMax(S) == CHOOSE x \in S : \A y \in S : x >= y

\* the sum of f over the finite set S
RECURSIVE SumOver(_, _)
SumOver(S, f) == IF S = {} THEN 0 ELSE LET x == CHOOSE y \in S : TRUE IN f[x] + SumOver(S \ {x}, f)

\* the sum of f over S on the numbers of Python: nan when one of them is nan,
\* else inf when one is inf, else beyond the floats when one is
Total(S, f) ==
  IF \E x \in S : f[x] = NaN THEN NaN
  ELSE IF \E x \in S : f[x] = Infinity THEN Infinity
  ELSE IF \E x \in S : f[x] = HugeInt THEN HugeInt
  ELSE SumOver(S, f)

\* the greatest of the floats of S
Largest(S) == IF Infinity \in S THEN Infinity ELSE SetMax(S)

\* the quotient total / n, which is the total when that is inf or nan
Average(total, n) == IF total \in {NaN, Infinity} THEN <<total, 1>> ELSE <<total, n>>

DurationAt == [i \in 1..Len(logs) |-> _to_float(logs[i].duration_sec)]
FailuresAt == [i \in 1..Len(logs) |-> _to_int(logs[i].command_failures)]
AlertsAt == [i \in 1..Len(logs) |-> _to_int(logs[i].alert_count)]
SuccessAt == [i \in 1..Len(logs) |-> IF logs[i].success THEN 1 ELSE 0]

\* the aggregates of the last summary are those of the documents it took in
AggregatesOfIncluded ==
  /\ scan.out.total_runs = Cardinality(Included)
  /\ scan.out.totals.command_failures = Total(Included, FailuresAt)
  /\ scan.out.totals.alert_count = Total(Included, AlertsAt)
  /\ DOMAIN scan.out.pipelines = {p \in _ALLOWED_PIPELINES : IncludedOf(p) # {}}
  /\ \A p \in DOMAIN scan.out.pipelines :
       /\ scan.out.pipelines[p].runs = Cardinality(IncludedOf(p))
       /\ scan.out.pipelines[p].success_rate = <<SumOver(IncludedOf(p), SuccessAt), Cardinality(IncludedOf(p))>>
       /\ scan.out.pipelines[p].avg_duration_sec =
            Average(Total(IncludedOf(p), DurationAt), Cardinality(IncludedOf(p)))

\* C12: the lower bound of the window is inclusive.  After a summary with
\* days > 0, a run record whose event time is now - days is among the documents
\* taken in, one whose event time is one second earlier is not, and the run
\* counts, the durations and the command-failure and alert totals are those of
\* the documents taken in.
C12_WindowLowerBound ==
  Summarized /\ scan.days > 0 =>
    /\ \A i \in Eligible :
         /\ EventTime(logs[i]) = clock - scan.days * SecondsPerDay => i \in Included
         /\ EventTime(logs[i]) = clock - scan.days * SecondsPerDay - 1 => i \notin Included
    /\ AggregatesOfIncluded

C12_Witness ==
  /\ Summarized /\ scan.days > 0
  /\ \E i \in Included : EventTime(logs[i]) = clock - scan.days * SecondsPerDay
  /\ \E i \in Eligible \ Included : EventTime(logs[i]) = clock - scan.days * SecondsPerDay - 1

\* C13 as claimed: after a summary with days > 0, every document taken into
\* the aggregates and totals has its event time in [now - days, now].
C13_WindowUpperBound ==
  Summarized /\ scan.days > 0 =>
    \A i \in Included :
      /\ EventTime(logs[i]) >= clock - scan.days * SecondsPerDay
      /\ EventTime(logs[i]) <= clock

\* C14 as claimed: the scan runs to its end whatever the documents are; the
\* documents that are unparsable, no object, of an unknown pipeline or without
\* an event time are not taken in; total_runs is the sum of the pipelines' run
\* counts; each pipeline has success_rate = successes/runs within [0,1], the
\* average duration = summed duration/runs and the maximum duration = the
\* largest duration of its runs; the totals are the sums over the documents
\* taken in.
C14_ScannerAggregation ==
  scan.op = "summarize" =>
    /\ ~scan.raised
    /\ Included \subseteq Eligible
    /\ AggregatesOfIncluded
    /\ scan.out.total_runs =
         SumOver(DOMAIN scan.out.pipelines, [p \in DOMAIN scan.out.pipelines |-> scan.out.pipelines[p].runs])
    /\ \A p \in DOMAIN scan.out.pipelines :
         /\ 0 <= scan.out.pipelines[p].success_rate[1]
         /\ scan.out.pipelines[p].success_rate[1] <= scan.out.pipelines[p].success_rate[2]
         /\ scan.out.pipelines[p].max_duration_sec = Largest({DurationAt[i] : i \in IncludedOf(p)})

\* C15: the latest_run of a pipeline is the run taken in with the greatest
\* event time, and of several such runs the one latest in scan order.
C15_LatestRun ==
  Summarized =>
    \A p \in DOMAIN scan.out.pipelines :
      LET top == SetMax({EventTime(logs[i]) : i \in IncludedOf(p)})
          winner == SetMax({i \in IncludedOf(p) : EventTime(logs[i]) = top})
      IN scan.out.pipelines[p].latest_run =
           [timestamp |-> EventText(logs[winner]), success |-> logs[winner].success]

\* two runs of a pipeline share its greatest event time and differ in success
C15_Witness ==
  /\ Summarized
  /\ \E p \in DOMAIN scan.out.pipelines :
       \E i, j \in IncludedOf(p) :
         /\ i < j /\ logs[i].success # logs[j].success
         /\ EventTime(logs[i]) = EventTime(logs[j])
         /\ \A k \in IncludedOf(p) : EventTime(logs[k]) <= EventTime(logs[i])
         /\ \E k \in IncludedOf(p) : EventTime(logs[k]) < EventTime(logs[i])

\* the runs of pipeline p the last continuity scan had in its window
WindowRuns(p) ==
  {i \in Eligible :
     /\ NormalizePipeline(logs[i].pipeline) = p
     /\ (scan.days <= 0 \/ EventTime(logs[i]) >= clock - scan.days * SecondsPerDay)}

\* the event time of the newest successful run of p, NoTime when it has none
LastSuccess(p) ==
  LET ok == {EventTime(logs[i]) : i \in {j \in WindowRuns(p) : logs[j].success}}
  IN IF ok = {} THEN NoTime ELSE SetMax(ok)

\* the failing runs of p newer than its newest success, and those not older
FailuresAfterSuccess(p) == {i \in WindowRuns(p) : ~logs[i].success /\ EventTime(logs[i]) > LastSuccess(p)}
FailuresSinceSuccess(p) == {i \in WindowRuns(p) : ~logs[i].success /\ EventTime(logs[i]) >= LastSuccess(p)}

ReportedEntries(p) ==
  {k \in 1..Len(scan.out.violated_pipelines) : scan.out.violated_pipelines[k].pipeline = p}

\* C20: the consecutive_failures reported for a pipeline is the number of
\* failing runs at the head of its in-window runs taken newest first (all the
\* failing runs newer than its newest success; of the failing runs at the very
\* time of that success at most all), a pipeline is reported once and only with
\* a streak that reaches the limit, and a pipeline whose newest run succeeded,
\* having streak 0, is not reported.
C20_ConsecutiveStreak ==
  Continued =>
    \A p \in _ALLOWED_PIPELINES :
      /\ Cardinality(ReportedEntries(p)) <= 1
      /\ \A k \in ReportedEntries(p) :
           /\ scan.out.violated_pipelines[k].consecutive_failures >= Cardinality(FailuresAfterSuccess(p))
           /\ scan.out.violated_pipelines[k].consecutive_failures <= Cardinality(FailuresSinceSuccess(p))
           /\ scan.out.violated_pipelines[k].consecutive_failures >= scan.out.limit
      /\ Cardinality(FailuresAfterSuccess(p)) >= scan.out.limit => ReportedEntries(p) # {}
      /\ FailuresSinceSuccess(p) = {} => ReportedEntries(p) = {}

\* a reported streak that stopped at a success with an older failure behind it
C20_Witness ==
  /\ Continued
  /\ \E p \in _ALLOWED_PIPELINES :
       /\ \E k \in ReportedEntries(p) :
            scan.out.violated_pipelines[k].consecutive_failures = Cardinality(FailuresAfterSuccess(p))
       /\ LastSuccess(p) # NoTime
       /\ \E i \in WindowRuns(p) : ~logs[i].success /\ EventTime(logs[i]) < LastSuccess(p)

(***************************************************************************)
(* ---- Metric thresholds: load_metric_thresholds ----                     *)
(* A duration is kept in whole seconds and a failure rate in units of      *)
(* 1/RateScale, so that 0.10 is 10 and 1.0 is RateScale.  The text of a    *)
(* setting in the environment is the number it spells, None when the       *)
(* variable is not set, BlankText, InvalidText for a text that float()     *)
(* rejects, or NaN for the text "nan", which float() accepts and which     *)
(* compares false with every number.                                       *)
(***************************************************************************)
MaxOverrides == 2

RateScale == 100

dev == <<"d", "e", "v">>
stg == <<"s", "t", "g">>
prod == <<"p", "r", "o", "d">>
qa == <<"q", "a">>
DevPadded == <<" ", "D", "e", "v", " ">>

PerPipeline(d, w, m) == [p \in _ALLOWED_PIPELINES |-> IF p = daily THEN d ELSE IF p = weekly THEN w ELSE m]

_DEFAULT_DURATION_THRESHOLDS_SEC == PerPipeline(900, 1800, 3600)
_DEFAULT_FAILURE_RATE_THRESHOLDS == PerPipeline(10, 20, 25)

ProfileNames == {dev, stg, prod}

_DEFAULT_THRESHOLD_PROFILES ==
  [n \in ProfileNames |->
     IF n = dev THEN [duration_sec |-> PerPipeline(1800, 3600, 7200), failure_rate |-> PerPipeline(30, 40, 50)]
     ELSE IF n = stg THEN [duration_sec |-> PerPipeline(1200, 2400, 4800), failure_rate |-> PerPipeline(20, 30, 35)]
     ELSE [duration_sec |-> _DEFAULT_DURATION_THRESHOLDS_SEC, failure_rate |-> _DEFAULT_FAILURE_RATE_THRESHOLDS]]

_DEFAULT_THRESHOLD_PROFILE == prod

\* str(env.get(KEY, "")).strip().lower()
NormalizeProfile(text) == NormalizePipeline(text)

\* a resolution that falls back to the most lenient profile
ResolveProfileLenient(selector) ==
  IF NormalizeProfile(selector) \in DOMAIN _DEFAULT_THRESHOLD_PROFILES THEN NormalizeProfile(selector)
  ELSE dev

resolve_metric_threshold_profile(selector) ==
  IF NormalizeProfile(selector) \in DOMAIN _DEFAULT_THRESHOLD_PROFILES THEN NormalizeProfile(selector)
  ELSE _DEFAULT_THRESHOLD_PROFILE

\* a reader that gives the default for a number outside the bounds
ReadFloatThresholdRejecting(raw, default, minimum, maximum) ==
  IF raw \in {None, BlankText, InvalidText} THEN default
  ELSE IF raw = NaN THEN NaN
  ELSE IF raw = Infinity THEN (IF maximum # None THEN default ELSE Infinity)
  ELSE IF raw < minimum THEN default
  ELSE IF maximum # None /\ raw > maximum THEN default
  ELSE raw

\* _read_float_threshold(env, key, default, minimum=..., maximum=...): every
\* comparison with nan is false, and inf is above every bound
_read_float_threshold(raw, default, minimum, maximum) ==
  IF raw \in {None, BlankText, InvalidText} THEN default
  ELSE IF raw = NaN THEN NaN
  ELSE IF raw = Infinity THEN (IF maximum # None THEN maximum ELSE Infinity)
  ELSE IF raw < minimum THEN minimum
  ELSE IF maximum # None /\ raw > maximum THEN maximum
  ELSE raw

MinDuration == 1
MinFailureRate == 0
MaxFailureRate == 1 * RateScale

\* the environment: the profile selector and the six overrides
ThresholdEnv(selector, durations, rates) ==
  [profile |-> selector, duration_sec |-> durations, failure_rate |-> rates]

load_metric_thresholds(e) ==
  LET profile == resolve_metric_threshold_profile(e.profile)
      profile_defaults == _DEFAULT_THRESHOLD_PROFILES[profile]
  IN [pipeline \in _ALLOWED_PIPELINES |->
        [max_duration_sec |->
           _read_float_threshold(e.duration_sec[pipeline], profile_defaults.duration_sec[pipeline],
                                 MinDuration, None),
         max_failure_rate |->
           _read_float_threshold(e.failure_rate[pipeline], profile_defaults.failure_rate[pipeline],
                                 MinFailureRate, MaxFailureRate)]]

(***************************************************************************)
(* ---- Loading the thresholds from a changing environment (SpecThr) ----  *)
(***************************************************************************)
\* the text of METRIC_THRESHOLD_PROFILE, empty when the variable is not set
Selectors == {<<>>, dev, DevPadded, stg, prod, qa}
DurationTexts == {BlankText, InvalidText, NaN, Infinity, 0, 333}
RateTexts == {InvalidText, NaN, Infinity, -20, 12, 150}
Metrics == {"duration_sec", "failure_rate"}
TextsOf(metric) == IF metric = "duration_sec" THEN DurationTexts ELSE RateTexts

NoOverrides == PerPipeline(None, None, None)

\* the number of overrides set in the environment e
OverrideCount(e) ==
  Cardinality({p \in _ALLOWED_PIPELINES : e.duration_sec[p] # None})
    + Cardinality({p \in _ALLOWED_PIPELINES : e.failure_rate[p] # None})

InitThr ==
  /\ thr \in {[NoThr EXCEPT !.env = ThresholdEnv(sel, NoOverrides, NoOverrides)] : sel \in Selectors}
  /\ logs = <<>>
  /\ scan = NoScan
  /\ ev = NoEv
  /\ health = NoHealth
  /\ report = NoReport
  /\ clock = 0
  /\ fs = [q \in Paths |-> Missing]
  /\ env = InvalidText
  /\ last = NoOp
  /\ pc = [p \in Procs |-> "idle"]
  /\ loc = [p \in Procs |-> IdleLoc]
  /\ renamed = Missing
  /\ seen = Missing
  /\ sigIn = <<>>
  /\ sigOut = <<>>

\* load_metric_thresholds(env) on the environment e, which differs from the
\* one of the previous call in the setting `changed`
Load(e, changed) ==
  /\ thr' = [op |-> "load", env |-> e, out |-> load_metric_thresholds(e),
             prevEnv |-> changed,
             prevOut |-> IF thr.op = "load" THEN thr.out ELSE load_metric_thresholds(e)]
  /\ UNCHANGED <<dedupVars, logs, scan, ev, health, report>>

FirstLoad ==
  /\ thr.op = "none"
  /\ Load(thr.env, <<>>)

\* an override is set and the thresholds are loaded again
OverrideAndLoad ==
  /\ thr.op = "load"
  /\ OverrideCount(thr.env) < MaxOverrides
  /\ \E p \in _ALLOWED_PIPELINES, metric \in Metrics :
       /\ thr.env[metric][p] = None
       /\ \E raw \in TextsOf(metric) :
            Load([thr.env EXCEPT ![metric][p] = raw], <<p, metric>>)

\* another profile is selected and the thresholds are loaded again
SelectAndLoad ==
  /\ thr.op = "load"
  /\ \E sel \in Selectors \ {thr.env.profile} :
       Load([thr.env EXCEPT !.profile = sel], <<"profile">>)

NextThr == FirstLoad \/ OverrideAndLoad \/ SelectAndLoad

SpecThr == InitThr /\ [][NextThr]_vars

(***************************************************************************)
(* ---- Properties of the thresholds (SpecThr) ----                        *)
(***************************************************************************)
Loaded == thr.op = "load"

Slots == _ALLOWED_PIPELINES \X Metrics

\* the text of the override of a slot and the value resolved for it
RawOf(slot) == thr.env[slot[2]][slot[1]]
ResolvedIn(out, slot) ==
  IF slot[2] = "duration_sec" THEN out[slot[1]].max_duration_sec ELSE out[slot[1]].max_failure_rate
Resolved(slot) == ResolvedIn(thr.out, slot)

LowerBound(slot) == IF slot[2] = "duration_sec" THEN MinDuration ELSE MinFailureRate
HasUpperBound(slot) == slot[2] = "failure_rate"

IsNumber(raw) == raw \notin {None, BlankText, InvalidText, NaN}
BelowBounds(slot) == IsNumber(RawOf(slot)) /\ RawOf(slot) # Infinity /\ RawOf(slot) < LowerBound(slot)
AboveBounds(slot) ==
  IsNumber(RawOf(slot)) /\ HasUpperBound(slot) /\ (RawOf(slot) = Infinity \/ RawOf(slot) > MaxFailureRate)
WithinBounds(slot) == IsNumber(RawOf(slot)) /\ ~BelowBounds(slot) /\ ~AboveBounds(slot)

\* the profile the selector names: dev, stg or prod in any letter case and
\* padding, and prod for anything else
SelectedProfile ==
  IF thr.env.profile \in {dev, DevPadded} THEN dev
  ELSE IF thr.env.profile = stg THEN stg
  ELSE prod

ProfileDefault(slot) == _DEFAULT_THRESHOLD_PROFILES[SelectedProfile][slot[2]][slot[1]]

\* C16: each of the six sub-thresholds resolves to its own override when that
\* is a number within the bounds and to the default of the selected profile
\* when it is not set, blank or no number; the selected profile is the one the
\* selector names, prod when it names none; setting the override of one
\* sub-threshold changes the resolved value of no other.
C16_ThresholdPrecedence ==
  Loaded =>
    /\ \A slot \in Slots :
         /\ WithinBounds(slot) => Resolved(slot) = RawOf(slot)
         /\ RawOf(slot) \in {None, BlankText, InvalidText} => Resolved(slot) = ProfileDefault(slot)
    /\ \A slot \in Slots :
         thr.prevEnv \in Slots /\ slot # thr.prevEnv => Resolved(slot) = ResolvedIn(thr.prevOut, slot)

\* under a selector that names no profile, an override within the bounds wins
\* on its slot right after it was set, next to defaults of prod
C16_Witness ==
  /\ Loaded /\ thr.env.profile = qa
  /\ thr.prevEnv \in Slots /\ WithinBounds(thr.prevEnv)
  /\ Resolved(thr.prevEnv) # ResolvedIn(thr.prevOut, thr.prevEnv)
  /\ \E slot \in Slots : RawOf(slot) = InvalidText /\ Resolved(slot) = ProfileDefault(slot)

\* C17 as claimed: an override that is a number outside the bounds is not used,
\* its sub-threshold resolves to the default of the selected profile.
C17_OutOfBoundsUsesDefault ==
  Loaded =>
    \A slot \in Slots :
      BelowBounds(slot) \/ AboveBounds(slot) => Resolved(slot) = ProfileDefault(slot)

\* C17 amended: an override that is a number below the lower bound resolves to
\* that bound and one above the upper bound of a failure rate to that bound;
\* only an override that is not set, blank or no number resolves to the default
\* of the selected profile.
C17_OutOfBoundsClamped ==
  Loaded =>
    \A slot \in Slots :
      /\ BelowBounds(slot) => Resolved(slot) = LowerBound(slot)
      /\ AboveBounds(slot) => Resolved(slot) = MaxFailureRate
      /\ Resolved(slot) = ProfileDefault(slot) /\ IsNumber(RawOf(slot)) => RawOf(slot) = ProfileDefault(slot)

C17_Witness ==
  /\ Loaded
  /\ \E slot \in Slots : BelowBounds(slot) /\ Resolved(slot) # ProfileDefault(slot)
  /\ \E slot \in Slots : AboveBounds(slot) /\ Resolved(slot) # ProfileDefault(slot)

\* C18 as claimed: whatever the environment holds, every resolved
\* max_duration_sec is a number >= 1.0 and every resolved max_failure_rate a
\* number within [0.0, 1.0]; a number outside the bounds resolves to the
\* nearest bound and a text that is no number to the profile default.
C18_ResolvedWithinBounds ==
  Loaded =>
    \A slot \in Slots :
      /\ Resolved(slot) # NaN
      /\ Resolved(slot) = Infinity \/ Resolved(slot) >= LowerBound(slot)
      /\ HasUpperBound(slot) => Resolved(slot) <= MaxFailureRate
      /\ BelowBounds(slot) => Resolved(slot) = LowerBound(slot)
      /\ AboveBounds(slot) => Resolved(slot) = MaxFailureRate
      /\ RawOf(slot) = InvalidText => Resolved(slot) = ProfileDefault(slot)

(***************************************************************************)
(* ---- evaluate_metric_thresholds ----                                    *)
(* The entry of a pipeline in summary["pipelines"] is a dict with runs,    *)
(* success_rate (a quotient) and max_duration_sec, or something else.      *)
(***************************************************************************)
\* the float nan as a rate, a rate that float() rejects, and a rate that is an
\* integer beyond the range of a float
RateNaN == <<0, 0>>
RateText == <<>>
RateHuge == <<1, 0>>

SummaryEntry(runs, success_rate, max_duration_sec) ==
  [kind |-> "dict", runs |-> runs, success_rate |-> success_rate, max_duration_sec |-> max_duration_sec]

NotAnEntry == [kind |-> "other", runs |-> 0, success_rate |-> <<0, 1>>, max_duration_sec |-> 0]

(***************************************************************************)
(* ---- Binary floating point ----                                         *)
(* The rates and penalties are computed on floats of 53 significant bits.  *)
(* A natural number of any size is the sequence of its digits to the base  *)
(* 2^15, the most significant first and none for 0.  A float that is not   *)
(* negative is [e, m] with m the natural number of its 53 bits and the     *)
(* value m * 2^(e - 52), so that 2^e <= value < 2^(e + 1); the float 0.0   *)
(* has m = <<>>.  Every operation rounds its exact result to the nearest   *)
(* float, a tie to the one whose last bit is 0.                            *)
(***************************************************************************)
MantissaBits == 53

\* the bits of a digit: a product of two digits stays below 2^30
DigitBits == 30 \div 2
Base == 2^DigitBits

Zeros(k) == [i \in 1..k |-> 0]

RECURSIVE Trim(_)
Trim(a) == IF a # <<>> /\ a[1] = 0 THEN Trim(Tail(a)) ELSE a

\* the natural number of an integer 0 <= n < 2^31
NatOf(n) == Trim(<<n \div (Base * Base), (n \div Base) % Base, n % Base>>)

\* the integer of a natural number below 2^31
RECURSIVE IntOf(_)
IntOf(a) == IF a = <<>> THEN 0 ELSE IntOf(SubSeq(a, 1, Len(a) - 1)) * Base + a[Len(a)]

\* a[1..i] * k + carry for a digit k
RECURSIVE TimesDigit(_, _, _, _)
TimesDigit(a, k, i, carry) ==
  IF i = 0 THEN (IF carry = 0 THEN <<>> ELSE <<carry>>)
  ELSE Append(TimesDigit(a, k, i - 1, (a[i] * k + carry) \div Base), (a[i] * k + carry) % Base)

\* the digits of (rem * Base^n + a[i..]) divided by k, 0 <= rem < k <= Base
RECURSIVE OverDigit(_, _, _, _)
OverDigit(a, k, i, rem) ==
  IF i > Len(a) THEN <<>>
  ELSE <<(rem * Base + a[i]) \div k>> \o OverDigit(a, k, i + 1, (rem * Base + a[i]) % k)

RECURSIVE RestDigit(_, _, _, _)
RestDigit(a, k, i, rem) ==
  IF i > Len(a) THEN rem ELSE RestDigit(a, k, i + 1, (rem * Base + a[i]) % k)

Padded(a, n) == Zeros(n - Len(a)) \o a

RECURSIVE PlusFrom(_, _, _, _)
PlusFrom(a, b, i, carry) ==
  IF i = 0 THEN (IF carry = 0 THEN <<>> ELSE <<carry>>)
  ELSE Append(PlusFrom(a, b, i - 1, (a[i] + b[i] + carry) \div Base), (a[i] + b[i] + carry) % Base)

NatPlus(a, b) ==
  IF Len(a) >= Len(b) THEN PlusFrom(a, Padded(b, Len(a)), Len(a), 0)
  ELSE PlusFrom(Padded(a, Len(b)), b, Len(b), 0)

RECURSIVE MinusFrom(_, _, _, _)
MinusFrom(a, b, i, borrow) ==
  IF i = 0 THEN <<>>
  ELSE Append(MinusFrom(a, b, i - 1, IF a[i] - b[i] - borrow < 0 THEN 1 ELSE 0),
              (a[i] - b[i] - borrow + Base) % Base)

\* a - b of natural numbers a >= b
NatMinus(a, b) == Trim(MinusFrom(a, Padded(b, Len(a)), Len(a), 0))

RECURSIVE TimesFrom(_, _, _)
TimesFrom(a, b, i) ==
  IF i > Len(b) THEN <<>>
  ELSE NatPlus(TimesDigit(a, b[i], Len(a), 0) \o Zeros(Len(b) - i), TimesFrom(a, b, i + 1))

NatTimes(a, b) == Trim(TimesFrom(a, b, 1))

NatLess(a, b) ==
  \/ Len(a) < Len(b)
  \/ Len(a) = Len(b) /\ \E i \in 1..Len(a) : a[i] < b[i] /\ \A j \in 1..(i - 1) : a[j] = b[j]

\* the number of bits of a natural number
BitLength(a) ==
  IF a = <<>> THEN 0
  ELSE DigitBits * (Len(a) - 1) + (CHOOSE k \in 1..DigitBits : 2^(k - 1) <= a[1] /\ a[1] < 2^k)

ShiftLeft(a, k) ==
  IF a = <<>> THEN <<>> ELSE TimesDigit(a, 2^(k % DigitBits), Len(a), 0) \o Zeros(k \div DigitBits)

\* a divided by 2^k, the remainder dropped
ShiftRight(a, k) ==
  IF k \div DigitBits >= Len(a) THEN <<>>
  ELSE Trim(OverDigit(SubSeq(a, 1, Len(a) - k \div DigitBits), 2^(k % DigitBits), 1, 0))

IsOdd(a) == a # <<>> /\ a[Len(a)] % 2 = 1

\* a / 2^k for k >= 1 to the nearest natural number, a tie to the even one;
\* more tells that the exact number is a little above a
NearestFrom(a, k, more, twice) ==
  IF IsOdd(twice) /\ (more \/ ShiftLeft(twice, k - 1) # a \/ IsOdd(ShiftRight(twice, 1)))
  THEN NatPlus(ShiftRight(twice, 1), <<1>>)
  ELSE ShiftRight(twice, 1)

Nearest(a, k, more) == TheOnly({NearestFrom(a, k, more, twice) : twice \in {ShiftRight(a, k - 1)}})

FloatZero == [e |-> 0, m |-> <<>>]

FloatFrom(e, m) == IF BitLength(m) > MantissaBits THEN [e |-> e + 1, m |-> ShiftRight(m, 1)] ELSE [e |-> e, m |-> m]

FloatOfBits(a, unit, more, bits) ==
  IF bits = 0 THEN FloatZero
  ELSE IF bits <= MantissaBits THEN [e |-> unit + bits - 1, m |-> ShiftLeft(a, MantissaBits - bits)]
  ELSE TheOnly({FloatFrom(unit + bits - 1, m) : m \in {Nearest(a, bits - MantissaBits, more)}})

\* the float nearest to a * 2^unit, or to a little more than that
FloatOfNat(a, unit, more) == TheOnly({FloatOfBits(a, unit, more, bits) : bits \in {BitLength(a)}})

FloatOfInt(n) == FloatOfNat(NatOf(n), 0, FALSE)

FloatOne == FloatOfInt(1)

\* the exponent of the last bit of a float
Unit(x) == x.e - (MantissaBits - 1)

\* the digits that hold the quotient by a digit to more than 53 bits
Guard == 5 * DigitBits

\* x / n of a float by an integer 0 < n <= Base
FloatOverInt(x, n) ==
  IF x.m = <<>> THEN FloatZero
  ELSE FloatOfNat(Trim(OverDigit(x.m \o Zeros(Guard \div DigitBits), n, 1, 0)), Unit(x) - Guard,
                  RestDigit(x.m \o Zeros(Guard \div DigitBits), n, 1, 0) # 0)

\* the float nearest to the quotient n / d of two positive integers, d <= Base:
\* n / d on integers, and float() of the decimal text that spells n / d
FloatOfQuotient(n, d) ==
  FloatOfNat(Trim(OverDigit(NatOf(n) \o Zeros(Guard \div DigitBits), d, 1, 0)), -Guard,
             RestDigit(NatOf(n) \o Zeros(Guard \div DigitBits), d, 1, 0) # 0)

\* float(x) of the quotient pair x
FloatOf(x) ==
  IF x[1] = 0 THEN FloatZero
  ELSE IF x[2] < 0 THEN FloatOfQuotient(-x[1], -x[2])
  ELSE FloatOfQuotient(x[1], x[2])

\* x > y on floats that are not negative
FloatGreater(x, y) ==
  IF x.m = <<>> THEN FALSE
  ELSE IF y.m = <<>> THEN TRUE
  ELSE x.e > y.e \/ (x.e = y.e /\ NatLess(y.m, x.m))

\* the bits of a float in the unit of a smaller one
Aligned(x, unit) == ShiftLeft(x.m, Unit(x) - unit)

\* beyond this distance of the exponents the smaller float is less than a
\* quarter of the last bit of the greater one
Apart == 2 * MantissaBits

\* x + y
FloatPlus(x, y) ==
  IF x.m = <<>> THEN y
  ELSE IF y.m = <<>> THEN x
  ELSE IF x.e - y.e > Apart THEN x
  ELSE IF y.e - x.e > Apart THEN y
  ELSE IF x.e >= y.e THEN FloatOfNat(NatPlus(Aligned(x, Unit(y)), y.m), Unit(y), FALSE)
  ELSE FloatOfNat(NatPlus(Aligned(y, Unit(x)), x.m), Unit(x), FALSE)

\* x - y for x >= y
FloatMinus(x, y) ==
  IF y.m = <<>> THEN x
  ELSE IF x.e - y.e > Apart THEN x
  ELSE FloatOfNat(NatMinus(Aligned(x, Unit(y)), y.m), Unit(y), FALSE)

\* x * y
FloatTimes(x, y) ==
  IF x.m = <<>> \/ y.m = <<>> THEN FloatZero
  ELSE FloatOfNat(NatTimes(x.m, y.m), Unit(x) + Unit(y), FALSE)

\* min(x, y) of Python: the first argument unless the second is smaller
FloatMin(x, y) == IF FloatGreater(x, y) THEN y ELSE x

\* int(round(x)) of a float below 2^30: the nearest integer, a tie to the even one
RoundToInt(x) ==
  IF x.m = <<>> \/ x.e < -1 THEN 0
  ELSE IF Unit(x) >= 0 THEN IntOf(ShiftLeft(x.m, Unit(x)))
  ELSE IntOf(Nearest(x.m, -Unit(x), FALSE))

\* max(0.0, min(1.0, 1.0 - success_rate)): a rate that is no number counts as
\* 0.0, and min(1.0, nan) is 1.0
ObservedFailureRate(success_rate) ==
  IF success_rate \in {RateText, RateNaN} THEN FloatOne
  ELSE IF success_rate[1] * success_rate[2] <= 0 THEN FloatOne
  ELSE IF FloatOf(success_rate).e >= 0 THEN FloatZero
  ELSE FloatMinus(FloatOne, FloatOf(success_rate))

\* the observed failure rates of the success rates n / d of up to TabledRuns runs
TabledRuns == 10
TabledRates == (0..TabledRuns) \X (1..TabledRuns)
ObservedFailureRates == [x \in TabledRates |-> ObservedFailureRate(x)]
ThresholdFloats == [t \in 0..RateScale |-> FloatOf(<<t, RateScale>>)]

Observed(success_rate) ==
  IF success_rate \in DOMAIN ObservedFailureRates THEN ObservedFailureRates[success_rate]
  ELSE ObservedFailureRate(success_rate)

\* float(text) of a threshold text that spells threshold / RateScale
ThresholdFloat(threshold) ==
  IF threshold \in DOMAIN ThresholdFloats THEN ThresholdFloats[threshold]
  ELSE FloatOf(<<threshold, RateScale>>)

\* observed_failure_rate > failure_rate_threshold, the threshold in 1/RateScale
RateExceeds(observed, threshold) ==
  /\ threshold \notin {NaN, Infinity}
  /\ \/ threshold < 0
     \/ threshold \in 0..RateScale /\ FloatGreater(observed, ThresholdFloat(threshold))

\* the loop body has gone through without an error and appended `violations`
Appended(violations) == [raised |-> FALSE, violations |-> violations]

\* the loop body is left by an OverflowError of int() or float()
Overflowed == [raised |-> TRUE, violations |-> <<>>]

\* the body of the loop over summary["pipelines"]: the violations of one
\* pipeline, or the OverflowError of _to_int(runs) for the float inf and of
\* _to_float for an integer beyond the range of a float
PipelineViolations(pipeline, values, thresholds) ==
  IF pipeline \notin _ALLOWED_PIPELINES THEN Appended(<<>>)
  ELSE IF values.kind # "dict" THEN Appended(<<>>)
  ELSE IF ToIntRaises(values.runs) THEN Overflowed
  ELSE IF NotPositive(_to_int(values.runs)) THEN Appended(<<>>)
  ELSE IF \/ ToFloatRaises(thresholds[pipeline].max_duration_sec)
          \/ ToFloatRaises(thresholds[pipeline].max_failure_rate)
          \/ ToFloatRaises(values.max_duration_sec)
          \/ values.success_rate = RateHuge
       THEN Overflowed
  ELSE LET duration_threshold == _to_float(thresholds[pipeline].max_duration_sec)
           failure_rate_threshold == _to_float(thresholds[pipeline].max_failure_rate)
           observed_max_duration == _to_float(values.max_duration_sec)
           observed_failure_rate == Observed(values.success_rate)
       IN Appended(
            (IF Exceeds(observed_max_duration, duration_threshold)
             THEN <<[pipeline |-> pipeline, metric |-> "max_duration_sec",
                     threshold |-> <<duration_threshold, 1>>, observed |-> <<observed_max_duration, 1>>]>>
             ELSE <<>>)
            \o (IF RateExceeds(observed_failure_rate, failure_rate_threshold)
                THEN <<[pipeline |-> pipeline, metric |-> "failure_rate",
                        threshold |-> <<failure_rate_threshold, RateScale>>,
                        observed |-> observed_failure_rate]>>
                ELSE <<>>))

\* for pipeline, values in pipelines.items(), over the names from position i
\* on, `violations` being the list so far: the list that is returned, or the
\* error that ends the call
RECURSIVE EvaluateFrom(_, _, _, _, _)
EvaluateFrom(names, i, pipelines, thresholds, violations) ==
  IF i > Len(names) THEN Appended(violations)
  ELSE IF names[i] \notin DOMAIN pipelines
       THEN EvaluateFrom(names, i + 1, pipelines, thresholds, violations)
  ELSE LET body == PipelineViolations(names[i], pipelines[names[i]], thresholds)
       IN IF body.raised THEN Overflowed
          ELSE EvaluateFrom(names, i + 1, pipelines, thresholds, violations \o body.violations)

\* a summary: the dict summary["pipelines"] and the order its keys were inserted in
Summary(order, pipelines) == [order |-> order, pipelines |-> pipelines]

\* the order of the keys of summary["pipelines"]
SummaryOrder(summary) == summary.order

\* the call: `raised` when an OverflowError leaves it, else its list
evaluate_metric_thresholds(summary, thresholds) ==
  EvaluateFrom(SummaryOrder(summary), 1, summary.pipelines, thresholds, <<>>)

(***************************************************************************)
(* ---- Evaluating summaries against thresholds (SpecEval) ----            *)
(* The success rates are multiples of 1/4 or 1/2, which binary floating    *)
(* point holds exactly, and 7/10, which it does not; runs and durations    *)
(* are also the float inf and an integer beyond the range of a float; the  *)
(* keys of a summary were inserted in sorted order or in the reverse of it.*)
(***************************************************************************)
SummaryEntries ==
  { SummaryEntry(0, <<0, 1>>, 9999),
    SummaryEntry(InvalidText, <<0, 4>>, 9999),
    SummaryEntry(4, <<4, 4>>, 900),
    SummaryEntry(4, <<3, 4>>, 3600),
    SummaryEntry(4, <<3, 4>>, 3601),
    SummaryEntry(4, <<2, 4>>, 901),
    SummaryEntry(4, <<0, 4>>, 10),
    SummaryEntry(2, <<3, 2>>, 11),
    SummaryEntry(2, <<-1, 2>>, 1800),
    SummaryEntry(10, <<7, 10>>, 11),
    SummaryEntry(Infinity, <<0, 4>>, 9999),
    SummaryEntry(HugeInt, <<2, 4>>, 901),
    SummaryEntry(4, <<4, 4>>, HugeInt),
    SummaryEntry(4, <<4, 4>>, Infinity),
    SummaryEntry(2, RateHuge, 11),
    NotAnEntry }

SummaryPipelines == {daily, weekly, monthly, hourly}

SortedKeys(D) == SelectSeq(<<daily, hourly, monthly, weekly>>, LAMBDA p : p \in D)
Reversed(seq) == [i \in 1..Len(seq) |-> seq[Len(seq) + 1 - i]]
KeyOrders(D) == {SortedKeys(D), Reversed(SortedKeys(D))}

\* the entries of a pipeline that is not one of the allowed ones
UnknownEntries == {SummaryEntry(4, <<2, 4>>, 901), NotAnEntry}

EntriesOf(D) == {pipelines \in [D -> SummaryEntries] : hourly \in D => pipelines[hourly] \in UnknownEntries}

Summaries ==
  UNION {{Summary(order, pipelines) : order \in KeyOrders(D), pipelines \in EntriesOf(D)} :
           D \in SUBSET SummaryPipelines}

EvalEnvs ==
  { ThresholdEnv(<<>>, NoOverrides, NoOverrides),
    ThresholdEnv(dev, NoOverrides, NoOverrides),
    ThresholdEnv(<<>>, PerPipeline(10, Infinity, None), PerPipeline(30, None, None)) }

InitEval ==
  /\ ev \in {[NoEv EXCEPT !.summary = summary] : summary \in Summaries}
  /\ thr = NoThr
  /\ logs = <<>>
  /\ scan = NoScan
  /\ health = NoHealth
  /\ report = NoReport
  /\ clock = 0
  /\ fs = [q \in Paths |-> Missing]
  /\ env = InvalidText
  /\ last = NoOp
  /\ pc = [p \in Procs |-> "idle"]
  /\ loc = [p \in Procs |-> IdleLoc]
  /\ renamed = Missing
  /\ seen = Missing
  /\ sigIn = <<>>
  /\ sigOut = <<>>

\* evaluate_metric_thresholds(summary, load_metric_thresholds(env))
Evaluate(e) ==
  /\ ev' \in {[op |-> "evaluate", summary |-> ev.summary, thresholds |-> thresholds,
                 raised |-> evaluate_metric_thresholds(ev.summary, thresholds).raised,
                 violations |-> evaluate_metric_thresholds(ev.summary, thresholds).violations] :
                thresholds \in {load_metric_thresholds(e)}}
  /\ UNCHANGED <<dedupVars, logs, scan, thr, health, report>>

EvaluateCall == \E e \in EvalEnvs : Evaluate(e)

NextEval == EvaluateCall

SpecEval == InitEval /\ [][NextEval]_vars

(***************************************************************************)
(* ---- Properties of the evaluation (SpecEval) ----                       *)
(***************************************************************************)
Evaluated == ev.op = "evaluate"

\* the known pipelines of the summary with runs > 0: a positive number, the
\* float inf or an integer beyond the range of a float
ActivePipelines ==
  {p \in DOMAIN ev.summary.pipelines \cap _ALLOWED_PIPELINES :
     /\ ev.summary.pipelines[p].kind = "dict"
     /\ ev.summary.pipelines[p].runs \notin {InvalidText, None, NaN}
     /\ (ev.summary.pipelines[p].runs \in {HugeInt, Infinity} \/ ev.summary.pipelines[p].runs > 0)}

ViolationsOf(p, metric) ==
  {k \in 1..Len(ev.violations) : ev.violations[k].pipeline = p /\ ev.violations[k].metric = metric}

\* the observed maximum duration of p is strictly greater than its duration
\* threshold, as numbers: inf and an integer beyond the floats are greater than
\* every threshold but inf
DurationAbove(p) ==
  LET observed == ev.summary.pipelines[p].max_duration_sec
      threshold == ev.thresholds[p].max_duration_sec
  IN /\ observed # NaN /\ threshold \notin {NaN, Infinity}
     /\ (observed \in {Infinity, HugeInt} \/ observed > threshold)

\* 1 - success_rate clamped to [0, 1], as a quotient over the same denominator
FailureShare(p) ==
  LET rate == ev.summary.pipelines[p].success_rate
      share == rate[2] - rate[1]
  IN IF rate = RateHuge THEN <<0, 1>>
     ELSE <<IF share < 0 THEN 0 ELSE IF share > rate[2] THEN rate[2] ELSE share, rate[2]>>

\* the float 1.0 - success_rate of p clamped to [0, 1], which is 0.0 for a
\* success rate beyond the floats, and the float of the failure-rate threshold
\* of p
ObservedFloat(p) ==
  IF ev.summary.pipelines[p].success_rate = RateHuge THEN FloatZero
  ELSE Observed(ev.summary.pipelines[p].success_rate)
LimitFloat(p) == ThresholdFloat(ev.thresholds[p].max_failure_rate)

\* the violations of the last evaluation are those of the claim: none of a
\* pipeline that is unknown or without runs; of each known pipeline with
\* runs > 0 one max_duration_sec violation if its observed maximum duration is
\* strictly greater than the duration threshold and none otherwise, one
\* failure_rate violation if its observed failure rate, the float
\* 1.0 - success_rate clamped to [0, 1], is strictly greater than the float of
\* the failure-rate threshold and none otherwise, hence at most 2; a failure
\* share above (below) the threshold as quotients is a violation (none), and
\* the violation reports the observed float
ViolationsAsClaimed ==
  /\ \A k \in 1..Len(ev.violations) : ev.violations[k].pipeline \in ActivePipelines
  /\ \A p \in ActivePipelines :
       /\ Cardinality(ViolationsOf(p, "max_duration_sec")) = (IF DurationAbove(p) THEN 1 ELSE 0)
       /\ Cardinality(ViolationsOf(p, "failure_rate")) =
            (IF FloatGreater(ObservedFloat(p), LimitFloat(p)) THEN 1 ELSE 0)
       /\ RateScale * FailureShare(p)[1] > ev.thresholds[p].max_failure_rate * FailureShare(p)[2]
            => ViolationsOf(p, "failure_rate") # {}
       /\ RateScale * FailureShare(p)[1] < ev.thresholds[p].max_failure_rate * FailureShare(p)[2]
            => ViolationsOf(p, "failure_rate") = {}
       /\ \A k \in ViolationsOf(p, "failure_rate") :
            /\ ev.violations[k].observed = ObservedFloat(p)
            /\ ev.violations[k].observed # LimitFloat(p)
       /\ Cardinality({k \in 1..Len(ev.violations) : ev.violations[k].pipeline = p}) <= 2

\* C19 as claimed: after every evaluation a
\* pipeline with zero runs (or an unknown one) has no violation and each known
\* pipeline with runs > 0 has exactly one max_duration_sec violation if its
\* observed maximum duration is strictly greater than the duration threshold
\* and none otherwise, and exactly one failure_rate violation if its observed
\* failure rate (1 - success_rate clamped to [0, 1]) is strictly greater than
\* the failure-rate threshold and none otherwise, at most 2 for a pipeline.
C19_ViolationEvaluation == Evaluated => ViolationsAsClaimed

\* an evaluation that returns its list gives the violations of the claim
ReturnedAsClaimed == Evaluated /\ ~ev.raised => ViolationsAsClaimed

\* an evaluation that an OverflowError ends although one of its pipelines
\* with runs > 0 is above its duration threshold
RaisedAboveThreshold ==
  Evaluated /\ ev.raised /\ \E p \in ActivePipelines : DurationAbove(p)

\* a returned evaluation with one pipeline right at both of its thresholds
\* without a violation, another with both violations, its failure share 3/10
\* at a threshold of 0.30 and observed as the float above it, and a pipeline
\* without runs that would exceed both
ReturnedAtThresholds ==
  /\ Evaluated /\ ~ev.raised
  /\ \E p \in ActivePipelines :
       /\ ev.summary.pipelines[p].max_duration_sec = ev.thresholds[p].max_duration_sec
       /\ RateScale * FailureShare(p)[1] = ev.thresholds[p].max_failure_rate * FailureShare(p)[2]
       /\ ViolationsOf(p, "max_duration_sec") = {} /\ ViolationsOf(p, "failure_rate") = {}
  /\ \E p \in ActivePipelines :
       /\ ViolationsOf(p, "max_duration_sec") # {} /\ ViolationsOf(p, "failure_rate") # {}
       /\ RateScale * FailureShare(p)[1] = ev.thresholds[p].max_failure_rate * FailureShare(p)[2]
  /\ \E p \in DOMAIN ev.summary.pipelines \cap _ALLOWED_PIPELINES :
       /\ p \notin ActivePipelines /\ ev.summary.pipelines[p].kind = "dict"
       /\ ev.summary.pipelines[p].max_duration_sec > ev.thresholds[p].max_duration_sec
  /\ ev.summary.order # SortedKeys(DOMAIN ev.summary.pipelines)

(***************************************************************************)
(* ---- The continuity alert on long histories (SpecCont) ----             *)
(* The logs directory holds up to MaxRuns run records of two pipelines,    *)
(* and the two limits are drawn from texts that are absent, blank, not an  *)
(* integer, below 1, above the default critical limit, or out of order.    *)
(***************************************************************************)
MaxRuns == 5

ContDocuments ==
  { RunDocument(daily, TsNaive(ScanNow), TsNone, FALSE, 1, 1, 0),
    RunDocument(daily, TsNaive(ScanNow), TsNone, TRUE, 1, 0, 0),
    RunDocument(weekly, TsNaive(AtStart), TsNone, FALSE, 1, 1, 0) }

ContLimitTexts ==
  {<<None, None>>, <<BlankText, InvalidText>>, <<0, -3>>, <<2, 1>>, <<1, 2>>, <<4, None>>, <<6, None>>, <<None, 2>>}

InitCont ==
  /\ logs \in UNION {[1..n -> ContDocuments] : n \in 0..MaxRuns}
  /\ scan = NoScan
  /\ thr = NoThr
  /\ ev = NoEv
  /\ health = NoHealth
  /\ report = NoReport
  /\ clock = ScanNow
  /\ fs = [q \in Paths |-> Missing]
  /\ env = InvalidText
  /\ last = NoOp
  /\ pc = [p \in Procs |-> "idle"]
  /\ loc = [p \in Procs |-> IdleLoc]
  /\ renamed = Missing
  /\ seen = Missing
  /\ sigIn = <<>>
  /\ sigOut = <<>>

ContinuityCall == \E days \in ScanDays, l \in ContLimitTexts : EvaluateContinuity(days, l[1], l[2])

NextCont == ContinuityCall

SpecCont == InitCont /\ [][NextCont]_vars

\* the streak of pipeline p in the last continuity scan: the failing runs at
\* the head of its in-window runs taken newest first, 0 when it has no run
StreakOf(p) ==
  LET runs == CollectRuns(logs, 1, WindowStart(scan.days, clock), <<>>)
  IN IF p \in DOMAIN runs THEN CountHeadFailures(SortNewestFirst(runs[p])) ELSE 0

\* the severity the two limits of the last scan give the streak s
Classified(s) ==
  IF s >= scan.out.critical_limit THEN "critical"
  ELSE IF s >= scan.out.warning_limit THEN "warning"
  ELSE "none"

SeverityOfReported(p) ==
  IF ReportedEntries(p) = {} THEN "none"
  ELSE scan.out.violated_pipelines[CHOOSE k \in ReportedEntries(p) : TRUE].severity

\* C21 as claimed: whatever the two limits are, a pipeline is reported
\* critical iff its streak >= critical_limit, warning iff warning_limit <=
\* streak < critical_limit and is not reported otherwise; the overall severity
\* is the greatest severity of a pipeline and active says it is not none.
C21_ContinuityClassification ==
  Continued =>
    /\ \A p \in _ALLOWED_PIPELINES : SeverityOfReported(p) = Classified(StreakOf(p))
    /\ \A p \in _ALLOWED_PIPELINES : SeverityRank(scan.out.severity) >= SeverityRank(Classified(StreakOf(p)))
    /\ \/ scan.out.severity = "none"
       \/ \E p \in _ALLOWED_PIPELINES : Classified(StreakOf(p)) = scan.out.severity
    /\ scan.out.active = (scan.out.severity # "none")

\* C22 as claimed: whatever the two texts of the limits are, the limits the
\* continuity scan returns satisfy 1 <= warning_limit <= critical_limit.
C22_LimitsOrdered ==
  Continued =>
    /\ 1 <= scan.out.warning_limit
    /\ scan.out.warning_limit <= scan.out.critical_limit

(***************************************************************************)
(* ---- calculate_operational_health_score ----                            *)
(* The success rate of a pipeline is the quotient <<numerator,             *)
(* denominator>> that spells its float, <<0, 0>> for the float nan and     *)
(* <<>> for a value that float() rejects.  An integer field is the         *)
(* integer, None when the key is missing, InvalidText, NaN, Infinity or    *)
(* HugeInt.  The summary keeps the order its pipelines were inserted in.   *)
(***************************************************************************)
HealthItem(runs, success_rate) == [kind |-> "dict", runs |-> runs, success_rate |-> success_rate]
NotAnItem == [kind |-> "other", runs |-> 0, success_rate |-> <<0, 1>>]

HealthSummary(order, pipelines, command_failures, alert_count) ==
  [order |-> order, pipelines |-> pipelines,
   totals |-> [command_failures |-> command_failures, alert_count |-> alert_count]]

\* a test that also takes a pipeline without runs into the average
IsActiveLenient(item) == item.kind = "dict" /\ ~IsNegative(_to_int(item.runs))

\* isinstance(item, Mapping) and not runs <= 0
IsActive(item) == item.kind = "dict" /\ ~NotPositive(_to_int(item.runs))

\* max(0.0, min(1.0, _to_float(item.get("success_rate")))); min(1.0, nan) is 1.0
ClampedRate(success_rate) ==
  IF success_rate = RateText THEN FloatZero
  ELSE IF success_rate = RateNaN THEN FloatOne
  ELSE IF success_rate[1] * success_rate[2] <= 0 THEN FloatZero
  ELSE FloatMin(FloatOne, FloatOf(success_rate))

\* sum(active_success_rates): from 0 on, one float after the other
RECURSIVE FloatSum(_, _, _)
FloatSum(rates, i, total) ==
  IF i > Len(rates) THEN total ELSE FloatSum(rates, i + 1, FloatPlus(total, rates[i]))

\* sum(active_success_rates) / len(active_success_rates) if active_success_rates else 0.0
AverageSuccessRate(rates) ==
  IF Len(rates) = 0 THEN FloatZero ELSE FloatOverInt(FloatSum(rates, 1, FloatZero), Len(rates))

\* max(0, _to_int(value))
NonNegative(value) == IF _to_int(value) = HugeInt THEN HugeInt ELSE Max(0, _to_int(value))

\* the floats of the literals 0.2, 2.0, 5.0, 10.0, 25.0, 60.0 and 100.0
Fifth == FloatOfQuotient(1, 5)
Two == FloatOfInt(2)
Five == FloatOfInt(5)
Ten == FloatOfInt(10)
TwentyFive == FloatOfInt(25)
Sixty == FloatOfInt(60)
Hundred == FloatOfInt(100)

SuccessPenalty(average_success_rate) == FloatTimes(FloatMinus(FloatOne, average_success_rate), Sixty)
ViolationPenalty(violation_count) == FloatMin(TwentyFive, FloatTimes(FloatOfInt(violation_count), Five))
CommandFailurePenalty(command_failures) == FloatMin(Ten, FloatTimes(FloatOfInt(command_failures), Two))

\* an alert penalty without its cap
AlertPenaltyUncapped(alert_count) == FloatTimes(FloatOfInt(alert_count), Fifth)

\* min(5.0, float(alert_count) * 0.2)
AlertPenalty(alert_count) == FloatMin(Five, FloatTimes(FloatOfInt(alert_count), Fifth))

\* int(round(100.0 - penalties)); the difference is negative when the
\* penalties exceed 100.0
RoundedScore(penalties) ==
  IF FloatGreater(penalties, Hundred) THEN -RoundToInt(FloatMinus(penalties, Hundred))
  ELSE RoundToInt(FloatMinus(Hundred, penalties))

\* max(0, min(100, score))
ClampedScore(score) == Max(0, IF score > 100 THEN 100 ELSE score)

\* the function does not return: int(inf) in _to_int, or float() of an integer
\* beyond the range of a float
HealthRaises(summary) ==
  \/ \E p \in DOMAIN summary.pipelines :
       summary.pipelines[p].kind = "dict" /\ ToIntRaises(summary.pipelines[p].runs)
  \/ ToIntRaises(summary.totals.command_failures)
  \/ ToIntRaises(summary.totals.alert_count)
  \/ ToFloatRaises(NonNegative(summary.totals.command_failures))
  \/ ToFloatRaises(NonNegative(summary.totals.alert_count))

\* the result for the factors, once they are there
HealthResult(average_success_rate, violation_count, command_failures, alert_count) ==
  LET success_penalty == SuccessPenalty(average_success_rate)
      violation_penalty == ViolationPenalty(violation_count)
      command_failure_penalty == CommandFailurePenalty(command_failures)
      alert_penalty == AlertPenalty(alert_count)
  IN [score |-> ClampedScore(RoundedScore(
                  FloatPlus(FloatPlus(FloatPlus(success_penalty, violation_penalty), command_failure_penalty),
                            alert_penalty))),
      factors |-> [average_pipeline_success_rate |-> average_success_rate,
                   violation_count |-> violation_count,
                   command_failures |-> command_failures,
                   alert_count |-> alert_count],
      penalties |-> [success_rate |-> success_penalty,
                     violations |-> violation_penalty,
                     command_failures |-> command_failure_penalty,
                     alerts |-> alert_penalty]]

calculate_operational_health_score(summary, violations) ==
  LET active == SelectSeq(summary.order, LAMBDA p : IsActive(summary.pipelines[p]))
      active_success_rates == [k \in 1..Len(active) |-> ClampedRate(summary.pipelines[active[k]].success_rate)]
  IN TheOnly({HealthResult(average_success_rate,
                           Len(SelectSeq(violations, LAMBDA item : item = "dict")),
                           NonNegative(summary.totals.command_failures),
                           NonNegative(summary.totals.alert_count)) :
                average_success_rate \in {AverageSuccessRate(active_success_rates)}})

(***************************************************************************)
(* ---- The health score of a changing summary (SpecHealth) ----           *)
(* The success rates are quotients that binary floating point holds        *)
(* exactly (1/4, 1/2) and quotients that it does not (1/3, 1/6, 7/10);     *)
(* three pipelines with the rates 0.1, 0.2 and 0.3 come in every order of  *)
(* insertion, of which the float of their sum depends.                     *)
(***************************************************************************)
MaxViolations == 20

RECURSIVE Repeat(_, _)
Repeat(item, n) == IF n <= 0 THEN <<>> ELSE <<item>> \o Repeat(item, n - 1)

HealthItems ==
  { HealthItem(2, <<1, 1>>), HealthItem(1, <<0, 1>>), HealthItem(4, <<1, 4>>), HealthItem(1, <<1, 2>>),
    HealthItem(10, <<7, 10>>), HealthItem(3, <<1, 3>>),
    HealthItem(1, RateNaN), HealthItem(1, RateText), HealthItem(1, <<3, 2>>), HealthItem(2, <<-1, 2>>),
    HealthItem(0, <<1, 1>>), HealthItem(Infinity, <<1, 1>>), HealthItem(HugeInt, <<1, 1>>), NotAnItem }

\* the items of a second pipeline
OtherItems == { HealthItem(6, <<1, 6>>), HealthItem(1, <<0, 1>>), HealthItem(0, <<0, 1>>) }

\* the items of a pipeline without a run
IdleItems ==
  { HealthItem(0, <<1, 1>>), HealthItem(-1, <<1, 2>>), HealthItem(InvalidText, <<1, 1>>),
    HealthItem(NaN, RateNaN) }

HealthTotals ==
  { <<0, 0>>, <<1, 3>>, <<1, 5>>, <<5, 25>>, <<-4, 30>>, <<None, InvalidText>>, <<Infinity, 0>>,
    <<0, HugeInt>> }

ViolationLists ==
  { <<>>, <<"other", "dict", "dict">>, Repeat("dict", 5), Repeat("dict", MaxViolations) }

\* the pipelines of a summary in the order of `order`, their items in `items`
Inserted(order, items) ==
  [order |-> order, pipelines |-> [p \in {order[k] : k \in 1..Len(order)} |->
                                     items[CHOOSE k \in 1..Len(order) : order[k] = p]]]

TenthFifthThreeTenths == <<HealthItem(10, <<1, 10>>), HealthItem(5, <<1, 5>>), HealthItem(10, <<3, 10>>)>>

InitialPipelines ==
  {Inserted(<<>>, <<>>)}
    \cup {Inserted(<<daily>>, <<item>>) : item \in HealthItems}
    \cup {Inserted(<<weekly>>, <<item>>) : item \in OtherItems}
    \cup {Inserted(<<daily, weekly>>, <<item, other>>) : item \in HealthItems, other \in OtherItems}
    \cup {Inserted(<<weekly, daily>>, <<HealthItem(6, <<1, 6>>), item>>) : item \in HealthItems}
    \cup {Inserted(order, TenthFifthThreeTenths) :
            order \in {o \in [1..3 -> _ALLOWED_PIPELINES] : \A i, j \in 1..3 : o[i] = o[j] => i = j}}

Scoring(op, summary, violations, changed, prev) ==
  [op |-> op, summary |-> summary, violations |-> violations, changed |-> changed,
   raised |-> HealthRaises(summary),
   out |-> IF HealthRaises(summary) THEN <<>> ELSE calculate_operational_health_score(summary, violations),
   prevRaised |-> prev.raised, prevOut |-> prev.out]

InitHealth ==
  /\ health \in {[op |-> "none", summary |-> HealthSummary(initial.order, initial.pipelines, t[1], t[2]),
                  violations |-> v, changed |-> <<>>, raised |-> FALSE, out |-> <<>>,
                  prevRaised |-> FALSE, prevOut |-> <<>>] :
                   initial \in InitialPipelines, t \in HealthTotals, v \in ViolationLists}
  /\ report = NoReport
  /\ logs = <<>>
  /\ scan = NoScan
  /\ thr = NoThr
  /\ ev = NoEv
  /\ clock = 0
  /\ fs = [q \in Paths |-> Missing]
  /\ env = InvalidText
  /\ last = NoOp
  /\ pc = [p \in Procs |-> "idle"]
  /\ loc = [p \in Procs |-> IdleLoc]
  /\ renamed = Missing
  /\ seen = Missing
  /\ sigIn = <<>>
  /\ sigOut = <<>>

\* calculate_operational_health_score(summary, violations)
Calculate ==
  /\ health.op = "none"
  /\ health' = Scoring("score", health.summary, health.violations, <<>>, health)
  /\ UNCHANGED <<dedupVars, logs, scan, thr, ev, report>>

\* a pipeline without a run enters the summary, as the last of its keys, and
\* the score is calculated again
AddIdlePipeline ==
  /\ health.op # "none"
  /\ \E p \in _ALLOWED_PIPELINES \ DOMAIN health.summary.pipelines, item \in IdleItems :
       health' = Scoring("add",
                         [health.summary EXCEPT
                            !.order = Append(health.summary.order, p),
                            !.pipelines = [q \in DOMAIN health.summary.pipelines \cup {p} |->
                                             IF q = p THEN item ELSE health.summary.pipelines[q]]],
                         health.violations, p, health)
  /\ UNCHANGED <<dedupVars, logs, scan, thr, ev, report>>

\* a pipeline without a run leaves the summary and the score is calculated again
RemoveIdlePipeline ==
  /\ health.op # "none"
  /\ \E p \in DOMAIN health.summary.pipelines :
       /\ health.summary.pipelines[p].kind = "dict"
       /\ ~ToIntRaises(health.summary.pipelines[p].runs)
       /\ NotPositive(_to_int(health.summary.pipelines[p].runs))
       /\ health' = Scoring("remove",
                            [health.summary EXCEPT
                               !.order = SelectSeq(health.summary.order, LAMBDA q : q # p),
                               !.pipelines = [q \in DOMAIN health.summary.pipelines \ {p} |->
                                                health.summary.pipelines[q]]],
                            health.violations, p, health)
  /\ UNCHANGED <<dedupVars, logs, scan, thr, ev, report>>

NextHealth == Calculate \/ AddIdlePipeline \/ RemoveIdlePipeline

SpecHealth == InitHealth /\ [][NextHealth]_vars

(***************************************************************************)
(* ---- Properties of the health score (SpecHealth) ----                   *)
(* The exact value of a quotient is the pair <<numerator, denominator>>    *)
(* with a positive denominator.                                            *)
(***************************************************************************)
Scored == health.op # "none" /\ ~health.raised

MinOf(a, b) == IF a <= b THEN a ELSE b

RatAdd(a, b) == <<a[1] * b[2] + b[1] * a[2], a[2] * b[2]>>

\* the pipelines of the summary that have a run
ActiveItems ==
  {p \in DOMAIN health.summary.pipelines :
     /\ health.summary.pipelines[p].kind = "dict"
     /\ health.summary.pipelines[p].runs \notin {None, InvalidText, NaN}
     /\ (health.summary.pipelines[p].runs = HugeInt \/ health.summary.pipelines[p].runs > 0)}

\* the success rate of a pipeline within [0, 1], as an exact quotient
ExactRate(p) ==
  LET rate == health.summary.pipelines[p].success_rate
  IN IF rate = RateText THEN <<0, 1>>
     ELSE IF rate = RateNaN THEN <<1, 1>>
     ELSE IF rate[1] <= 0 THEN <<0, 1>>
     ELSE IF rate[1] >= rate[2] THEN <<1, 1>>
     ELSE rate

RECURSIVE ExactSum(_)
ExactSum(S) == IF S = {} THEN <<0, 1>> ELSE LET p == CHOOSE q \in S : TRUE IN RatAdd(ExactRate(p), ExactSum(S \ {p}))

\* the average of the exact rates of the pipelines that have a run
ExactAverage ==
  IF ActiveItems = {} THEN <<0, 1>>
  ELSE <<ExactSum(ActiveItems)[1], ExactSum(ActiveItems)[2] * Cardinality(ActiveItems)>>

\* 100 - ((1 - avg) * 60 + min(25, 5v) + min(10, 2c) + min(5, a / 5)) on the
\* exact average, as a quotient
ExactScore ==
  LET avg == ExactAverage
      v == health.out.factors.violation_count
      c == health.out.factors.command_failures
      a == health.out.factors.alert_count
  IN <<500 * avg[2] - 300 * (avg[2] - avg[1])
         - 5 * avg[2] * (MinOf(25, 5 * v) + MinOf(10, 2 * c)) - avg[2] * MinOf(25, a),
       5 * avg[2]>>

\* C23 as claimed: whatever the summary and the violations are, the call
\* returns, and its score is an integer from 0 to 100.
C23_ScoreRange ==
  health.op # "none" =>
    /\ ~health.raised
    /\ health.out.score \in 0..100

\* C24: the four reported penalties are the floats (1 - avg_success_rate) * 60,
\* min(25, violation_count * 5), min(10, command_failures * 2) and
\* min(5, alert_count * 0.2) of the reported factors, the score is the integer
\* nearest to the float 100 minus their sum, within 0..100 and no further than
\* a half and the error of the floats from the exact value of the formula; the
\* violation count is the number of mappings in the list; active pipelines all
\* at 100% with no violation, failure or alert give 100, and all at 0% with 20
\* or more violations, 5 or more failures and 25 or more alerts give 0.
C24_ScoreFormula ==
  Scored =>
    LET avg == health.out.factors.average_pipeline_success_rate
        v == health.out.factors.violation_count
        c == health.out.factors.command_failures
        a == health.out.factors.alert_count
        success == FloatTimes(FloatMinus(FloatOne, avg), Sixty)
        violation == FloatOfInt(MinOf(25, v * 5))
        failure == FloatOfInt(MinOf(10, c * 2))
        alert == FloatMin(Five, FloatTimes(FloatOfInt(a), Fifth))
        penalties == FloatPlus(FloatPlus(FloatPlus(success, violation), failure), alert)
        s == health.out.score
        rates == {health.summary.pipelines[p].success_rate : p \in ActiveItems}
    IN /\ health.out.penalties.success_rate = success
       /\ health.out.penalties.violations = violation
       /\ health.out.penalties.command_failures = failure
       /\ health.out.penalties.alerts = alert
       /\ v = Cardinality({k \in 1..Len(health.violations) : health.violations[k] = "dict"})
       /\ s \in 0..100
       /\ ~FloatGreater(penalties, Hundred)
       /\ s = RoundToInt(FloatMinus(Hundred, penalties))
       /\ 2 * (ExactScore[1] - s * ExactScore[2]) <= ExactScore[2] + 1
       /\ 2 * (s * ExactScore[2] - ExactScore[1]) <= ExactScore[2] + 1
       /\ (ActiveItems # {} /\ rates = {<<1, 1>>} /\ v = 0 /\ c = 0 /\ a = 0) => s = 100
       /\ (ActiveItems # {} /\ rates = {<<0, 1>>} /\ v >= 20 /\ c >= 5 /\ a >= 25) => s = 0

\* a score with all four penalties at work whose exact value lies half way
\* between two integers: the floats give the lower, odd one
C24_Witness ==
  /\ Scored
  /\ Cardinality(ActiveItems) = 2
  /\ health.out.factors.violation_count = 2
  /\ health.out.factors.command_failures = 1
  /\ health.out.factors.alert_count = 5
  /\ 2 * ExactScore[1] = (2 * health.out.score + 1) * ExactScore[2]
  /\ health.out.score % 2 = 1

\* C25: a pipeline without a run does not enter the average: after one is
\* added or removed the call raises exactly when it did before and returns the
\* score and the average it returned before; when no pipeline has a run the
\* average success rate is 0, the success penalty 60 and the score at most 40.
C25_IdleIgnored ==
  /\ health.op \in {"add", "remove"} =>
       /\ health.raised = health.prevRaised
       /\ ~health.raised =>
            /\ health.out.score = health.prevOut.score
            /\ health.out.factors.average_pipeline_success_rate =
                 health.prevOut.factors.average_pipeline_success_rate
  /\ (Scored /\ ActiveItems = {}) =>
       /\ health.out.factors.average_pipeline_success_rate = FloatZero
       /\ health.out.penalties.success_rate = Sixty
       /\ health.out.score <= 40

\* a pipeline with 0 runs and a success rate of 1 was added next to a pipeline
\* that has runs and a lower success rate
C25_Witness ==
  /\ health.op = "add" /\ ~health.raised
  /\ health.summary.pipelines[health.changed] = HealthItem(0, <<1, 1>>)
  /\ ActiveItems # {}
  /\ FloatGreater(FloatOne, health.out.factors.average_pipeline_success_rate)
  /\ health.out.score < 100

(***************************************************************************)
(* ---- ops_report._collect_failed_command_retry_guides ----               *)
(* A run log is a file of the logs directory whose name ends in .log and   *)
(* holds -run-: `name` tells whether the name is                           *)
(* <pipeline>-run-<date>-<time>.log ("run"), has another pipeline          *)
(* ("other") or a date that is none ("baddate"); file_ts is the time in    *)
(* the name.  Its content is a sequence of lines, or bytes that are no     *)
(* UTF-8.  A line is an ERROR line of a failed command, with the text in   *)
(* its brackets, the pipeline as written and the command, or another line. *)
(***************************************************************************)
FailedLine(timestamp, pipeline, command) ==
  [matches |-> TRUE, timestamp |-> timestamp, pipeline |-> pipeline, command |-> command]
OtherLine == [matches |-> FALSE, timestamp |-> TsBad, pipeline |-> <<>>, command |-> 0]

RunLog(rank, name, file_ts, utf8, lines) ==
  [rank |-> rank, name |-> name, file_ts |-> file_ts, utf8 |-> utf8, lines |-> lines]

\* _resolve_window_start(days, now)
_resolve_window_start(days, now) == IF days <= 0 THEN DatetimeMin ELSE now - days * SecondsPerDay

\* the time of the event of a line: the text in the brackets through
\* datetime.fromisoformat and _to_naive_utc, the time of the file when the
\* text is no ISO-8601 time
GuideEventTime(line, file_ts) ==
  CASE line.timestamp.form \in {"bad", "blank"} -> file_ts
    [] line.timestamp.form = "naive" -> line.timestamp.t
    [] line.timestamp.form = "offset" -> line.timestamp.t - line.timestamp.off

\* the file is passed over before it is read
FileSkipped(file, since) == file.name # "run" \/ file.file_ts < since

\* read_text raises UnicodeDecodeError, which is no OSError
GuidesRaise(files, since) == \E i \in 1..Len(files) : ~FileSkipped(files[i], since) /\ ~files[i].utf8

RECURSIVE RowsOfLines(_, _, _)
RowsOfLines(lines, file_ts, since) ==
  IF lines = <<>> THEN <<>>
  ELSE LET line == Head(lines)
           rest == RowsOfLines(Tail(lines), file_ts, since)
       IN IF ~line.matches THEN rest
          ELSE IF GuideEventTime(line, file_ts) < since THEN rest
          ELSE <<[timestamp |-> GuideEventTime(line, file_ts),
                  pipeline |-> NormalizePipeline(line.pipeline),
                  failed_command |-> line.command]>> \o rest

\* the rows of the files, taken from the last name to the first
RECURSIVE CollectRows(_, _, _)
CollectRows(files, i, since) ==
  IF i < 1 THEN <<>>
  ELSE IF FileSkipped(files[i], since) THEN CollectRows(files, i - 1, since)
  ELSE RowsOfLines(files[i].lines, files[i].file_ts, since) \o CollectRows(files, i - 1, since)

\* rows left in the order of the scan
KeepScanOrder(rows) == rows

\* rows.sort(key=event_ts, reverse=True)
SortRows(rows) == SortNewestFirst(rows)

\* the loop over the sorted rows; event_ts is kept with each guide to tell
\* which event it came from (the report does not carry it)
RECURSIVE BuildGuides(_, _, _, _)
BuildGuides(rows, unique, guides, limit) ==
  IF rows = <<>> THEN guides
  ELSE LET row == Head(rows)
           key == <<row.pipeline, row.failed_command>>
           added == Append(guides, [pipeline |-> row.pipeline,
                                    failed_command |-> row.failed_command,
                                    suggested_retry_command |-> row.failed_command,
                                    event_ts |-> row.timestamp])
       IN IF key \in unique THEN BuildGuides(Tail(rows), unique, guides, limit)
          ELSE IF Len(added) >= Max(0, limit) THEN added
          ELSE BuildGuides(Tail(rows), unique \cup {key}, added, limit)

_collect_failed_command_retry_guides(files, since, limit) ==
  BuildGuides(SortRows(CollectRows(files, Len(files), since)), {}, <<>>, limit)

(***************************************************************************)
(* ---- The retry guides of a logs directory (SpecGuides) ----             *)
(***************************************************************************)
MaxRunLogs == 3
MaxCommands == 13
GuideLimit == 12

DailyCapital == <<"D", "a", "i", "l", "y">>

RunLogFiles ==
  { RunLog(1, "run", AtStart, TRUE,
           <<FailedLine(TsBad, daily, 2), OtherLine, FailedLine(TsNaive(ScanNow), daily, 1),
             FailedLine(TsNaive(AtStart), daily, 1)>>),
    RunLog(2, "run", ScanNow, TRUE,
           <<FailedLine(TsOffset(AtStart, 1), weekly, 1), FailedLine(TsNaive(After), DailyCapital, 2),
             FailedLine(TsNaive(Before), daily, 3)>>),
    RunLog(3, "other", ScanNow, TRUE, <<FailedLine(TsNaive(ScanNow), daily, 4)>>),
    RunLog(4, "run", AtStart, TRUE,
           [k \in 1..MaxCommands |-> FailedLine(TsBlank, monthly, k)]),
    RunLog(5, "run", ScanNow, FALSE, <<>>),
    RunLog(6, "run", Before, TRUE, <<FailedLine(TsNaive(ScanNow), weekly, 1)>>),
    RunLog(7, "run", Before, FALSE, <<>>),
    RunLog(8, "baddate", 0, TRUE, <<FailedLine(TsNaive(ScanNow), weekly, 2)>>) }

\* the files of a directory in the order of their names
RECURSIVE InNameOrder(_)
InNameOrder(S) ==
  IF S = {} THEN <<>>
  ELSE LET first == CHOOSE f \in S : \A g \in S : f.rank <= g.rank
       IN <<first>> \o InNameOrder(S \ {first})

Directories == {InNameOrder(S) : S \in {T \in SUBSET RunLogFiles : Cardinality(T) <= MaxRunLogs}}

InitGuides ==
  /\ report \in {[op |-> "none", runlogs |-> d, days |-> 0, now |-> ScanNow, raised |-> FALSE, out |-> <<>>] :
                   d \in Directories}
  /\ health = NoHealth
  /\ logs = <<>>
  /\ scan = NoScan
  /\ thr = NoThr
  /\ ev = NoEv
  /\ clock = ScanNow
  /\ fs = [q \in Paths |-> Missing]
  /\ env = InvalidText
  /\ last = NoOp
  /\ pc = [p \in Procs |-> "idle"]
  /\ loc = [p \in Procs |-> IdleLoc]
  /\ renamed = Missing
  /\ seen = Missing
  /\ sigIn = <<>>
  /\ sigOut = <<>>

\* _collect_failed_command_retry_guides(logs_dir, since=window_start, limit=12)
CollectGuides(days) ==
  LET since == _resolve_window_start(days, report.now)
  IN /\ report' = [op |-> "guides", runlogs |-> report.runlogs, days |-> days, now |-> report.now,
                   raised |-> GuidesRaise(report.runlogs, since),
                   out |-> IF GuidesRaise(report.runlogs, since) THEN <<>>
                           ELSE _collect_failed_command_retry_guides(report.runlogs, since, GuideLimit)]
     /\ UNCHANGED <<dedupVars, logs, scan, thr, ev, health>>

CollectGuidesCall == \E days \in ScanDays : CollectGuides(days)

NextGuides == CollectGuidesCall

SpecGuides == InitGuides /\ [][NextGuides]_vars

(***************************************************************************)
(* ---- Properties of the retry guides (SpecGuides) ----                   *)
(***************************************************************************)
Guided == report.op = "guides" /\ ~report.raised

Since == _resolve_window_start(report.days, report.now)

\* the failed-command events of the window: <<file, line>> positions
WindowEvents ==
  {e \in (1..Len(report.runlogs)) \X (1..MaxCommands) :
     /\ e[2] <= Len(report.runlogs[e[1]].lines)
     /\ report.runlogs[e[1]].name = "run"
     /\ report.runlogs[e[1]].file_ts >= Since
     /\ report.runlogs[e[1]].lines[e[2]].matches
     /\ GuideEventTime(report.runlogs[e[1]].lines[e[2]], report.runlogs[e[1]].file_ts) >= Since}

EventPair(e) ==
  <<NormalizePipeline(report.runlogs[e[1]].lines[e[2]].pipeline), report.runlogs[e[1]].lines[e[2]].command>>
EventAt(e) == GuideEventTime(report.runlogs[e[1]].lines[e[2]], report.runlogs[e[1]].file_ts)

\* C26: the list has at most one entry for a (pipeline, failed command)
\* pair, is ordered by event time from the most recent on, each entry stands
\* for the most recent event of its pair in the window (an event of a file of
\* the window, itself not older than the window start), suggests the failed
\* command itself as the retry, and the list has at most 12 entries.
C26_RetryGuides ==
  Guided =>
    LET g == report.out
    IN /\ \A i, j \in 1..Len(g) :
            i < j => /\ <<g[i].pipeline, g[i].failed_command>> # <<g[j].pipeline, g[j].failed_command>>
                     /\ g[i].event_ts >= g[j].event_ts
       /\ \A i \in 1..Len(g) :
            /\ g[i].suggested_retry_command = g[i].failed_command
            /\ \E e \in WindowEvents :
                 EventPair(e) = <<g[i].pipeline, g[i].failed_command>> /\ EventAt(e) = g[i].event_ts
            /\ \A e \in WindowEvents :
                 EventPair(e) = <<g[i].pipeline, g[i].failed_command>> => EventAt(e) <= g[i].event_ts
       /\ Len(g) <= 12

\* twelve guides out of more than twelve pairs, an older event of a listed
\* pair, and a failed command in a file older than the window
C26_Witness ==
  /\ Guided /\ report.days > 0
  /\ Len(report.out) = 12
  /\ Cardinality({EventPair(e) : e \in WindowEvents}) > 12
  /\ \E e \in WindowEvents, i \in 1..Len(report.out) :
       /\ EventPair(e) = <<report.out[i].pipeline, report.out[i].failed_command>>
       /\ EventAt(e) < report.out[i].event_ts
  /\ \E k \in 1..Len(report.runlogs) :
       /\ report.runlogs[k].name = "run" /\ report.runlogs[k].file_ts < Since
       /\ \E l \in 1..Len(report.runlogs[k].lines) : report.runlogs[k].lines[l].matches

(***************************************************************************)
(* ---- The two scanners on runs of one timestamp (SpecScan) ----          *)
(***************************************************************************)
\* the run the continuity scan takes for the newest of pipeline p
ContinuityHead(p) ==
  Head(SortNewestFirst(CollectRuns(logs, 1, WindowStart(scan.days, clock), <<>>)[p]))

\* C27 as claimed: of several runs of a pipeline with one timestamp the
\* continuity scan takes the one latest in scan order for the newer, so that
\* the run at the head of its scan is the latest_run of the summary of the
\* same window and the streak is 0 exactly when latest_run.success is true.
C27_TieBreakLastWins ==
  Continued =>
    LET summary == summarize_pipeline_metrics(scan.days, logs, clock)
    IN ~summary.raised =>
       \A p \in DOMAIN summary.pipelines :
         /\ ContinuityHead(p).timestamp_text = summary.pipelines[p].latest_run.timestamp
         /\ ContinuityHead(p).success = summary.pipelines[p].latest_run.success
         /\ (StreakOf(p) = 0) = summary.pipelines[p].latest_run.success

(***************************************************************************)
(* ---- Deduplication of two concurrent callers (SpecConc) ----            *)
(***************************************************************************)
\* C28 as claimed: of two processes that called should_emit_and_update_state
\* on the same state file for the same signature with a cooldown C > 0 and
\* with now values less than C apart, not both were told to send.
C28_ConcurrentDedup ==
  \A p, q \in Procs :
    ( /\ p # q
      /\ loc[p].returned /\ loc[q].returned
      /\ loc[p].key = loc[q].key
      /\ loc[p].cooldown > 0 /\ loc[p].cooldown = loc[q].cooldown
      /\ loc[p].now - loc[q].now < loc[p].cooldown
      /\ loc[q].now - loc[p].now < loc[p].cooldown )
    => ~(loc[p].send /\ loc[q].send)

(***************************************************************************)
(* ---- The frame of should_emit (Spec) ----                               *)
(***************************************************************************)
\* C29: a should_emit call for one signature leaves every entry of another
\* signature with the value it had, or removes it when the TTL is enabled and
\* its timestamp is older than now - ttl; it adds no entry but the one of its
\* own signature; and when it returns send=false with removed_count = 0 it
\* does not write the state path, which holds what it held before.
C29_ShouldEmitFrame ==
  Emitted =>
    /\ \A k \in DOMAIN PreMap \ {last.key} :
         \/ k \in DOMAIN PostMap /\ PostMap[k] = PreMap[k]
         \/ /\ k \notin DOMAIN PostMap
            /\ last.ttl > 0
            /\ _parse_timestamp(PreMap[k]) # NoTime
            /\ _parse_timestamp(PreMap[k]) < last.now - last.ttl
    /\ DOMAIN PostMap \subseteq DOMAIN PreMap \cup {last.key}
    /\ (~last.send /\ last.removed = 0) => (last.writes = 0 /\ StateDoc = last.pre)

\* a call that neither sends nor prunes, on a store that holds the entry of
\* another signature under an enabled TTL
C29_Witness ==
  /\ Emitted /\ ~last.send /\ last.removed = 0 /\ last.ttl > 0
  /\ last.writes = 0
  /\ \E k \in DOMAIN PreMap : k # last.key /\ _parse_timestamp(PreMap[k]) # NoTime

(***************************************************************************)
(* ---- metrics.check_metric_thresholds and                                *)
(*      ops_report.build_ops_report_data ----                              *)
(* The scanners of metrics.py read the wall clock themselves, one after    *)
(* the other; the report is built for the caller's now, and for a reading  *)
(* of the clock of its own when the caller gives None.  `reads` are the    *)
(* readings that datetime.now() gives during a call, in the order they are *)
(* made.  The alert types, the daily alert summaries and the artifact      *)
(* integrity of the report come from files of their own and are left out.  *)
(***************************************************************************)
\* the summary as calculate_operational_health_score reads it
HealthView(summary) ==
  HealthSummary(summary.order,
                [p \in DOMAIN summary.pipelines |->
                   HealthItem(summary.pipelines[p].runs, summary.pipelines[p].success_rate)],
                summary.totals.command_failures, summary.totals.alert_count)

\* check_metric_thresholds once the summary is there; `wall` is the reading of
\* the clock in evaluate_consecutive_slo_alert.  The runs of a scanned summary
\* are a count and its rates and durations are floats, so that the evaluation
\* of it converts them without an error; a total beyond the floats ends the
\* health score, and the call, with an OverflowError.
ThresholdResult(days, files, e, wall, summary) ==
  LET thresholds == load_metric_thresholds(e)
      violations ==
        evaluate_metric_thresholds(
          Summary(summary.order,
                  [p \in DOMAIN summary.pipelines |->
                     SummaryEntry(summary.pipelines[p].runs, summary.pipelines[p].success_rate,
                                  summary.pipelines[p].max_duration_sec)]),
          thresholds).violations
      continuous_alert == evaluate_consecutive_slo_alert(days, files, None, None, wall)
      health_score ==
        calculate_operational_health_score(HealthView(summary), [k \in 1..Len(violations) |-> "dict"])
  IN IF HealthRaises(HealthView(summary)) THEN Raised
     ELSE [raised |-> FALSE, days |-> days, thresholds |-> thresholds, violations |-> violations,
           continuous_alert |-> continuous_alert, health |-> health_score, summary |-> summary]

\* check_metric_thresholds(days, logs_dir, env): summarize_pipeline_metrics
\* reads the clock first, evaluate_consecutive_slo_alert second; the result,
\* or Raised when one of the calls it makes has raised
check_metric_thresholds(days, files, e, reads) ==
  TheOnly({IF summary.raised THEN Raised ELSE ThresholdResult(days, files, e, reads[2], summary) :
             summary \in {summarize_pipeline_metrics(days, files, reads[1])}})

\* build_ops_report_data once check_metric_thresholds has returned
ReportData(current, normalized_days, runlogs, threshold_result) ==
  LET window_start == _resolve_window_start(normalized_days, current)
  IN [raised |-> FALSE,
      generated_at |-> current,
      days |-> normalized_days,
      window_start |-> IF normalized_days > 0 THEN window_start ELSE None,
      total_runs |-> threshold_result.summary.total_runs,
      health_score |-> _to_int(threshold_result.health.score),
      pipeline_success_rates |->
        [p \in DOMAIN threshold_result.summary.pipelines |->
           [runs |-> threshold_result.summary.pipelines[p].runs,
            success_rate |-> threshold_result.summary.pipelines[p].success_rate]],
      threshold_violations_count |-> Len(threshold_result.violations),
      recent_command_failures |-> threshold_result.summary.totals.command_failures,
      failed_command_retry_guides |-> _collect_failed_command_retry_guides(runlogs, window_start, GuideLimit)]

\* current = now or datetime.now()
CurrentOf(now, reads) == IF now = None THEN reads[1] ELSE now

\* the readings left for check_metric_thresholds
ReadsLeft(now, reads) == IF now = None THEN Tail(reads) ELSE reads

\* the last of the readings that a call makes
LastRead(now, reads) == IF now = None THEN reads[3] ELSE reads[2]

\* a run log of the window is no UTF-8
ReportGuidesRaise(days, runlogs, current) ==
  GuidesRaise(runlogs, _resolve_window_start(Max(0, days), current))

\* a report whose run records are read for the window of the caller's now
BuildReportOneWindow(days, files, runlogs, now, e, reads) ==
  LET current == CurrentOf(now, reads)
  IN TheOnly({IF threshold_result.raised \/ ReportGuidesRaise(days, runlogs, current) THEN Raised
              ELSE ReportData(current, Max(0, days), runlogs, threshold_result) :
                threshold_result \in {check_metric_thresholds(Max(0, days), files, e, <<current, current>>)}})

\* build_ops_report_data(days, logs_dir, now, env): the report, or Raised when
\* check_metric_thresholds raises or a run log of the window is no UTF-8
build_ops_report_data(days, files, runlogs, now, e, reads) ==
  LET current == CurrentOf(now, reads)
  IN TheOnly({IF threshold_result.raised \/ ReportGuidesRaise(days, runlogs, current) THEN Raised
              ELSE ReportData(current, Max(0, days), runlogs, threshold_result) :
                threshold_result \in {check_metric_thresholds(Max(0, days), files, e, ReadsLeft(now, reads))}})

(***************************************************************************)
(* ---- Reports for a caller's now (SpecReport) ----                       *)
(* Up to MaxElapsed seconds pass on the clock while reports are built.     *)
(***************************************************************************)
MaxElapsed == 1
MaxReportFiles == 2

ReportDocuments ==
  { RunDocument(daily, TsNaive(Before), TsNone, FALSE, 5, 1, 1),
    RunDocument(daily, TsNaive(AtStart), TsNone, TRUE, 2, 0, 0),
    RunDocument(weekly, TsNaive(ScanNow), TsNone, FALSE, 2000, 2, 3),
    RunDocument(monthly, TsNaive(AtStart), TsNone, TRUE, Infinity, HugeInt, 0) }

ReportRunLogs ==
  { <<>>,
    <<RunLog(1, "run", Before, TRUE, <<FailedLine(TsNaive(Before), daily, 1)>>),
      RunLog(2, "run", ScanNow, TRUE, <<FailedLine(TsBad, weekly, 2)>>)>> }

ReportNows == {None, ScanNow, AtStart}

\* three readings of a clock that stands at `at` and does not run backwards
ClockReads(at) ==
  {reads \in [1..3 -> at..(ScanNow + MaxElapsed)] : reads[1] <= reads[2] /\ reads[2] <= reads[3]}

InitReport ==
  /\ logs \in UNION {[1..n -> ReportDocuments] : n \in 0..MaxReportFiles}
  /\ report \in {[op |-> "none", runlogs |-> d, days |-> 0, now |-> None, env |-> <<>>, reads |-> <<>>,
                  raised |-> FALSE, out |-> <<>>] : d \in ReportRunLogs}
  /\ clock = ScanNow
  /\ health = NoHealth
  /\ scan = NoScan
  /\ thr = NoThr
  /\ ev = NoEv
  /\ fs = [q \in Paths |-> Missing]
  /\ env = InvalidText
  /\ last = NoOp
  /\ pc = [p \in Procs |-> "idle"]
  /\ loc = [p \in Procs |-> IdleLoc]
  /\ renamed = Missing
  /\ seen = Missing
  /\ sigIn = <<>>
  /\ sigOut = <<>>

\* build_ops_report_data(days, logs_dir, now, env) while the clock gives `reads`
BuildReport(days, now, e, reads) ==
  /\ report' \in {[op |-> "report", runlogs |-> report.runlogs, days |-> days, now |-> now, env |-> e,
                    reads |-> reads, raised |-> data.raised,
                    out |-> IF data.raised THEN <<>> ELSE data] :
                   data \in {build_ops_report_data(days, logs, report.runlogs, now, e, reads)}}
  /\ clock' = LastRead(now, reads)
  /\ UNCHANGED <<fs, env, last, pc, loc, renamed, seen, sigIn, sigOut, logs, scan, thr, ev, health>>

BuildReportCall ==
  \E days \in ScanDays, now \in ReportNows, e \in EvalEnvs, reads \in ClockReads(clock) :
    BuildReport(days, now, e, reads)

NextReport == BuildReportCall

SpecReport == InitReport /\ [][NextReport]_vars

\* the now the last report was built for
ReportNow == CurrentOf(report.now, report.reads)

\* C30 as claimed: in a report of days > 0 the run records behind total_runs,
\* the violations, the health score and recent_command_failures are those whose
\* event time is at or after now - days for the caller's now, the bound that
\* the report gives as window_start and applies to the retry guides.
C30_OneWindow ==
  report.op = "report" /\ ~report.raised /\ report.out.days > 0 =>
    LET lower == ReportNow - report.out.days * SecondsPerDay
        selected == {i \in Eligible : EventTime(logs[i]) >= lower}
    IN /\ report.out.window_start = lower
       /\ report.out.total_runs = Cardinality(selected)
       /\ report.out.recent_command_failures = Total(selected, FailuresAt)
       /\ report.out = BuildReportOneWindow(report.days, logs, report.runlogs, report.now, report.env,
                                            report.reads)

====
